---- MODULE Spec2Model ----
(***************************************************************************)
(* Model of the kv crate (typed access layer over sled).                   *)
(*                                                                         *)
(* The engine state is one ordered map per bucket (sled::Tree), from raw   *)
(* key bytes to raw value bytes.  Bucket<K, V> handles are phantom typed:  *)
(* the value type V of the handle used for a call is an input of the call. *)
(* Raw bytes are sequences of numbers 0..255; a String value is the        *)
(* sequence of its code points and is stored as its UTF-8 bytes.           *)
(***************************************************************************)
EXTENDS Integers, Sequences, FiniteSets, TLC

\* ------------------------------------------------------------------ bounds
NumKeys == 2
MaxCalls == 2
MaxBatch == 4

\* ------------------------------------------------------------- Option/Result
None == [some |-> FALSE, val |-> <<>>]
Some(v) == [some |-> TRUE, val |-> v]

NoError == [kind |-> "none", code |-> 0]
Ok(x) == [ok |-> TRUE, val |-> x, err |-> NoError]
Err(e) == [ok |-> FALSE, val |-> None, err |-> e]

\* Error::Sled(sled::Error): the conversion `?` applies to an engine failure
ErrorFromSled(code) == [kind |-> "Sled", code |-> code]
\* Error::FromUtf8(FromUtf8Error)
ErrorFromUtf8 == [kind |-> "FromUtf8", code |-> 0]
\* Error::Message(String): the error values an application aborts with
ErrorMessage(code) == [kind |-> "Message", code |-> code]
\* conversion `?` applies to sled::CompareAndSwapError
ErrorFromStrUtf8 == [kind |-> "Utf8", code |-> 0]
ErrorFromCompareAndSwap == [kind |-> "CompareAndSwap", code |-> 0]

SledErrors == {1}
AppErrors == {ErrorMessage(1), ErrorMessage(2)}

\* ------------------------------------------------------------------ UTF-8
IsCont(b) == b >= 128 /\ b <= 191

\* length of the well-formed UTF-8 sequence starting at bytes[i], 0 if none
Utf8Width(bytes, i) ==
  LET n == Len(bytes)
      b0 == bytes[i]
      b1 == IF i + 1 <= n THEN bytes[i + 1] ELSE 0
      b2 == IF i + 2 <= n THEN bytes[i + 2] ELSE 0
      b3 == IF i + 3 <= n THEN bytes[i + 3] ELSE 0
  IN  IF b0 <= 127 THEN 1
      ELSE IF b0 >= 194 /\ b0 <= 223 THEN (IF IsCont(b1) THEN 2 ELSE 0)
      ELSE IF b0 >= 224 /\ b0 <= 239 THEN
             (IF /\ IsCont(b1) /\ IsCont(b2)
                 /\ (b0 = 224 => b1 >= 160)
                 /\ (b0 = 237 => b1 <= 159)
              THEN 3 ELSE 0)
      ELSE IF b0 >= 240 /\ b0 <= 244 THEN
             (IF /\ IsCont(b1) /\ IsCont(b2) /\ IsCont(b3)
                 /\ (b0 = 240 => b1 >= 144)
                 /\ (b0 = 244 => b1 <= 143)
              THEN 4 ELSE 0)
      ELSE 0

Utf8CodePoint(bytes, i, w) ==
  IF w = 1 THEN bytes[i]
  ELSE IF w = 2 THEN (bytes[i] - 192) * 64 + (bytes[i + 1] - 128)
  ELSE IF w = 3 THEN (bytes[i] - 224) * 4096 + (bytes[i + 1] - 128) * 64
                     + (bytes[i + 2] - 128)
  ELSE (bytes[i] - 240) * 262144 + (bytes[i + 1] - 128) * 4096
       + (bytes[i + 2] - 128) * 64 + (bytes[i + 3] - 128)

RECURSIVE Utf8Valid(_, _)
Utf8Valid(bytes, i) ==
  IF i > Len(bytes) THEN TRUE
  ELSE LET w == Utf8Width(bytes, i)
       IN  IF w = 0 THEN FALSE ELSE Utf8Valid(bytes, i + w)

RECURSIVE Utf8Decode(_, _)
Utf8Decode(bytes, i) ==
  IF i > Len(bytes) THEN <<>>
  ELSE LET w == Utf8Width(bytes, i)
       IN  <<Utf8CodePoint(bytes, i, w)>> \o Utf8Decode(bytes, i + w)

Utf8EncodeChar(c) ==
  IF c <= 127 THEN <<c>>
  ELSE IF c <= 2047 THEN <<192 + (c \div 64), 128 + (c % 64)>>
  ELSE IF c <= 65535 THEN
         <<224 + (c \div 4096), 128 + ((c \div 64) % 64), 128 + (c % 64)>>
  ELSE <<240 + (c \div 262144), 128 + ((c \div 4096) % 64),
         128 + ((c \div 64) % 64), 128 + (c % 64)>>

RECURSIVE Utf8Encode(_)
Utf8Encode(s) ==
  IF s = <<>> THEN <<>> ELSE Utf8EncodeChar(Head(s)) \o Utf8Encode(Tail(s))

\* ------------------------------------------------------------ Value trait
ValueTypes == {"Raw", "String"}

\* the values a caller passes in, per value type
Values(V) ==
  IF V = "Raw" THEN {<<97>>, <<255>>} ELSE {<<97>>, <<233>>}

\* mutant: the String is stored as its code points, not as UTF-8
ToRawValueUnencoded(V, v) == v

ToRawValue(V, v) ==
  IF V = "Raw" THEN v ELSE Utf8Encode(v)

\* mutant: a value that cannot be decoded is reported as an engine error
FromRawValueAsSled(V, r) ==
  IF V = "Raw" THEN Ok(Some(r))
  ELSE IF Utf8Valid(r, 1) THEN Ok(Some(Utf8Decode(r, 1)))
  ELSE Err(ErrorFromSled(0))

\* Result<V, Error>
FromRawValue(V, r) ==
  IF V = "Raw" THEN Ok(Some(r))
  ELSE IF Utf8Valid(r, 1) THEN Ok(Some(Utf8Decode(r, 1)))
  ELSE Err(ErrorFromUtf8)

\* `.map(|x| V::from_raw_value(x)).map_or(Ok(None), |v| v.map(Some))`
DecodeOption(V, o) ==
  IF o.some THEN FromRawValue(V, o.val) ELSE Ok(None)

EncodeOption(V, o) ==
  IF o.some THEN Some(ToRawValue(V, o.val)) ELSE None

OptionValues(V) == {None} \cup {Some(v) : v \in Values(V)}

\* ----------------------------------------------------------------- Key trait
\* cfg(target_endian) of the build
Targets == {"little", "big"}

\* Unsigned integers are numbers below 2^31; the byte of weight 256^e of x
Pow256(e) ==
  IF e = 0 THEN 1 ELSE IF e = 1 THEN 256 ELSE IF e = 2 THEN 65536 ELSE 16777216
ByteAt(x, e) == IF e > 3 THEN 0 ELSE (x \div Pow256(e)) % 256

\* mem::transmute of a w-byte unsigned integer to [u8; w]: its bytes as the
\* target lays them out in memory
Mem(target, x, w) ==
  IF target = "little" THEN [i \in 1..w |-> ByteAt(x, i - 1)]
  ELSE [i \in 1..w |-> ByteAt(x, w - i)]

\* mem::transmute of [u8; w] to an unsigned integer
RECURSIVE FromMemSum(_, _, _)
FromMemSum(target, m, i) ==
  IF i > Len(m) THEN 0
  ELSE LET e == IF target = "little" THEN i - 1 ELSE Len(m) - i
       IN  (IF m[i] = 0 THEN 0 ELSE m[i] * Pow256(e)) + FromMemSum(target, m, i + 1)
FromMem(target, m) == FromMemSum(target, m, 1)

Reverse(m) == [i \in 1..Len(m) |-> m[Len(m) + 1 - i]]
\* to_be / from_be and to_le / from_le, on the memory image of the integer
SwapBe(target, m) == IF target = "little" THEN Reverse(m) ELSE m
SwapLe(target, m) == IF target = "little" THEN m ELSE Reverse(m)

\* the two Integer key types: Integer([u8; 16]) of key.rs, built from u128,
\* and Integer([u8; 8]) of types.rs, built from u64
IntegerTypes == {"u128", "u64"}
IntegerWidth(I) == IF I = "u128" THEN 16 ELSE 8

\* mutant: the u128 is stored as the target lays it out
IntegerFromNative(I, target, x) == Mem(target, x, IntegerWidth(I))

\* From<u128> for Integer (key.rs), From<u64> for Integer (types.rs)
IntegerFrom(I, target, x) ==
  IF I = "u128" THEN SwapBe(target, Mem(target, x, 16))
  ELSE IF target = "little" THEN SwapLe(target, Mem(target, x, 8))
  ELSE SwapBe(target, Mem(target, x, 8))

\* mutant: the bytes are read back without the byte swap
IntegerIntoNative(I, target, bytes) == FromMem(target, bytes)

\* From<Integer> for u128 (key.rs), From<Integer> for u64 (types.rs)
IntegerInto(I, target, bytes) ==
  IF I = "u128" THEN FromMem(target, SwapBe(target, bytes))
  ELSE FromMem(target, bytes)

\* From<&[u8]> for Integer: the first w bytes of the buffer
IntegerFromSlice(I, buf) == SubSeq(buf, 1, IntegerWidth(I))

\* `&buf[..16]` on a buffer shorter than 16 bytes: the slice index is out of
\* range and the thread panics; no Result is returned
Panicked == [ok |-> FALSE, val |-> None, err |-> [kind |-> "panic", code |-> 0]]

\* the narrower integer types an Integer (key.rs) is built from, the bytes
\* each is wide (usize at its widest), and integers of each
NarrowTypes == {"u32", "u64", "usize", "i32"}
NarrowWidth(T) == IF T \in {"u32", "i32"} THEN 4 ELSE 8
NarrowInts(T) ==
  IF T = "i32" THEN {0, 1, 255, 256, 65536, 2147483647, -1, -2, -256, -2147483647}
  ELSE {0, 1, 255, 256, 65536, 2147483647}

\* `i as u128`: the memory image of the u128 the cast yields; a cast from a
\* signed type fills the added bytes with the sign, from an unsigned with 0
AsU128(T, target, x) ==
  LET fill == IF T = "i32" /\ x < 0 THEN 255 ELSE 0
      byte(e) == IF e > 3 THEN fill ELSE (x \div Pow256(e)) % 256
  IN  IF target = "little" THEN [i \in 1..16 |-> byte(i - 1)]
      ELSE [i \in 1..16 |-> byte(16 - i)]

\* From<u64> / From<u32> / From<i32> / From<usize> for Integer:
\* `let i = i as u128; i.into()`
IntegerFromNarrow(T, target, x) == SwapBe(target, AsU128(T, target, x))

\* the key types, and values of each; a str or String is the sequence of its
\* code points, an Integer the bytes it holds
KeyTypes == {"Raw", "Slice", "Str", "Vec", "String", "Integer"}
KeyInts == {0, 1, 2, 255, 256, 257, 65535, 65536, 16777216}
KeyValues(K) ==
  IF K \in {"Str", "String"} THEN {<<>>, <<97>>, <<233>>, <<97, 8364>>, <<128512, 98>>}
  ELSE IF K = "Integer" THEN {IntegerFrom("u128", "little", x) : x \in KeyInts}
  ELSE {<<>>, <<97>>, <<255>>, <<97, 0>>, <<195, 40>>}

\* Key::to_raw_key: `Ok(self.as_ref().into())`
ToRawKey(K, x) == IF K \in {"Str", "String"} THEN Utf8Encode(x) ELSE x

\* mutant: the bytes are taken for code points without decoding
FromRawKeyBytes(K, r) == Ok(r)

\* Key::from_raw_key
FromRawKey(K, r) ==
  IF K \in {"Str", "String"}
  THEN IF Utf8Valid(r, 1) THEN Ok(Utf8Decode(r, 1)) ELSE Err(ErrorFromStrUtf8)
  ELSE IF K = "Integer"
  THEN IF Len(r) < IntegerWidth("u128") THEN Panicked
       ELSE Ok(IntegerFromSlice("u128", r))
  ELSE Ok(r)

\* raw key bytes found in a bucket: text, bytes that are not UTF-8, and
\* keys of 15, 16 and 17 bytes
StoredKeys ==
  {<<>>, <<97>>, <<195, 169>>, <<255>>, <<195, 40>>, <<0, 0, 1>>}
  \cup {[i \in 1..n |-> IF i = n THEN 7 ELSE 0] : n \in 15..17}

\* ------------------------------------------------------------------- state
Buckets == {"A", "B", "C"}
AllKeys == << <<97>>, <<97, 98>>, <<98>>, <<98, 97>> >>
Keys == {AllKeys[i] : i \in 1..NumKeys}
Procs == {"p1", "p2"}

\* value type of the handle the application holds for each bucket
HandleType(b) == IF b = "B" THEN "Raw" ELSE "String"

VARIABLES
  tree,     \* tree[b][k]: Option<Raw> stored under raw key k of bucket b
  last,     \* the most recent Bucket call: arguments, trees before it, result
  written,  \* written[b][k]: the value of the last Ok set of k, if no write since
  calls,    \* number of Bucket calls made so far
  txn,      \* txn[p]: the transaction call thread p is executing
  serial,   \* the trees obtained by running the committed closures one by one
  batch,    \* the Batch the application is building
  watch,    \* the subscription of the Watch, with the events not yet taken
  event,    \* the Event the Watch delivered last
  iter,     \* the Iter the application is draining, with the items it yielded
  ints,     \* the contents of a bucket with Integer keys
  popped,   \* the entries pop_front / pop_back returned since the last insert
  kc,       \* the key conversion made last
  mgr,      \* the Manager of the LMDB variant, and the directories on disk
  store,    \* the Config being built and the Store made from it
  env,      \* the LMDB environment of the Store, its open Txn and Cursor
  raws,     \* the contents of a bucket written through a Bucket<Raw, Raw>
  ids,      \* the engine's id generator, and the ids generate_id returned
  codec     \* the value written through a codec, and what a get decoded

FullTree(r) == [b \in Buckets |-> [k \in Keys |-> Some(r)]]
EmptyTree == [b \in Buckets |-> [k \in Keys |-> None]]
\* contents found when the store is opened
InitTrees == {EmptyTree, FullTree(<<97>>), FullTree(<<255>>)}

\* a Bucket call: op(b, k, arg, new) through a handle of value type V, made
\* when the trees were pre; engine tells whether the engine call succeeded,
\* again whether the call before it was the same operation on the same key
NoCall ==
  [op |-> "none", b |-> "A", k |-> <<>>, V |-> "Raw", arg |-> None,
   new |-> None, pre |-> EmptyTree, engine |-> "ok", res |-> Ok(None),
   again |-> FALSE]
Call(op, b, k, V, arg, new, pre, engine, res) ==
  [op |-> op, b |-> b, k |-> k, V |-> V, arg |-> arg, new |-> new,
   pre |-> pre, engine |-> engine, res |-> res,
   again |-> (last.op = op /\ last.b = b /\ last.k = k)]
Unwritten == [some |-> FALSE, V |-> "Raw", val |-> <<>>]
NoWritten == [b \in Buckets |-> [k \in Keys |-> Unwritten]]

\* variables no point operation of a Bucket touches
quiet == <<batch, event>>
\* iteration and key conversion state
others == <<iter, ints, kc, mgr, store, env,
                 raws, ids, codec>>

\* byte-lexicographic order of raw keys (the order of sled::Tree)
RawLess(a, b) ==
  \E i \in 1..(Len(a) + 1) :
    /\ i <= Len(b)
    /\ \A j \in 1..(i - 1) : a[j] = b[j]
    /\ (i = Len(a) + 1 \/ a[i] < b[i])

\* ------------------------------------------------------------- subscriptions
\* the raw key k starts with the bytes of p
IsPrefix(p, k) == Len(p) <= Len(k) /\ SubSeq(k, 1, Len(p)) = p

\* sled::Event::Insert { key, value } / sled::Event::Remove { key }; at is
\* the position of the write among the Bucket calls
SledEvent(k, o, at) ==
  IF o.some THEN [kind |-> "Insert", key |-> k, value |-> o.val, at |-> at]
  ELSE [kind |-> "Remove", key |-> k, value |-> <<>>, at |-> at]

\* the subscriber: arg is the prefix argument of watch_prefix, prefix its
\* raw bytes, since the number of Bucket calls made before it was created
NoWatch ==
  [open |-> FALSE, b |-> "A", arg |-> None, prefix |-> <<>>, since |-> 0,
   queue |-> <<>>]

\* the engine tells the subscriber of bucket b that k now holds o
Notify(w, b, k, o, at) ==
  IF w.open /\ w.b = b /\ IsPrefix(w.prefix, k)
  THEN [w EXCEPT !.queue = Append(@, SledEvent(k, o, at))]
  ELSE w

\* one notification per write of the sequence ops, in its order
RECURSIVE NotifyAll(_, _, _, _)
NotifyAll(w, b, ops, at) ==
  IF ops = <<>> THEN w
  ELSE NotifyAll(Notify(w, b, Head(ops).k, Head(ops).o, at), b, Tail(ops), at)

\* --------------------------------------------------------- Bucket operations
\* mutant: an absent key is reported as an error
GetResultNotFound(tr, b, k, V) ==
  IF tr[b][k].some THEN FromRawValue(V, tr[b][k].val) ELSE Err(ErrorMessage(0))

\* Bucket::get through a handle of value type V
GetResult(tr, b, k, V) ==
  IF tr[b][k].some THEN FromRawValue(V, tr[b][k].val) ELSE Ok(None)

BucketGet(b, k, V) ==
  /\ calls < MaxCalls
  /\ last' = Call("get", b, k, V, None, None, tree, "ok", GetResult(tree, b, k, V))
  /\ calls' = calls + 1
  /\ UNCHANGED <<others, popped, tree, written, txn, serial, watch, quiet>>

\* Bucket::set: the tree after the insert, and the value returned
SetTree(tr, b, k, V, v) == [tr EXCEPT ![b][k] = Some(ToRawValue(V, v))]

\* mutant: the value the insert returns is dropped
SetResultDropped(tr, b, k, V) == Ok(None)

SetResult(tr, b, k, V) == DecodeOption(V, tr[b][k])

BucketSet(b, k, V, v) ==
  LET res == SetResult(tree, b, k, V)
  IN  /\ calls < MaxCalls
      /\ tree' = SetTree(tree, b, k, V, v)
      /\ last' = Call("set", b, k, V, Some(v), None, tree, "ok", res)
          /\ written' = [written EXCEPT ![b][k] =
                       IF res.ok THEN [some |-> TRUE, V |-> V, val |-> v]
                       ELSE Unwritten]
      /\ calls' = calls + 1
      /\ watch' = Notify(watch, b, k, Some(ToRawValue(V, v)), calls + 1)
      /\ popped' = <<>>
      /\ UNCHANGED <<others, txn, serial, quiet>>

\* mutant: the removal empties the bucket
RemoveTreeClears(tr, b, k) == [tr EXCEPT ![b] = [j \in DOMAIN tr[b] |-> None]]

\* Bucket::remove: the tree after the removal, and the value returned
RemoveTree(tr, b, k) == [tr EXCEPT ![b][k] = None]

\* mutant: removing an absent key is reported as an error
RemoveResultNotFound(tr, b, k, V) ==
  IF tr[b][k].some THEN DecodeOption(V, tr[b][k]) ELSE Err(ErrorMessage(0))

RemoveResult(tr, b, k, V) == DecodeOption(V, tr[b][k])

BucketRemove(b, k, V) ==
  /\ calls < MaxCalls
  /\ tree' = RemoveTree(tree, b, k)
  /\ last' = Call("remove", b, k, V, None, None, tree, "ok",
                  RemoveResult(tree, b, k, V))
  /\ written' = [written EXCEPT ![b][k] = Unwritten]
  /\ calls' = calls + 1
  /\ watch' = Notify(watch, b, k, None, calls + 1)
  /\ UNCHANGED <<others, popped, txn, serial, quiet>>

\* Bucket::compare_and_swap: the engine compares the stored bytes with the
\* encoded `old` and stores the encoded `value` on a match
CasMatches(tr, b, k, V, old) == tr[b][k] = EncodeOption(V, old)

\* mutant: `value` = None is taken as "leave the key as it is"
CasTreeNoneKeeps(tr, b, k, V, old, new) ==
  IF CasMatches(tr, b, k, V, old) /\ new.some
  THEN [tr EXCEPT ![b][k] = EncodeOption(V, new)]
  ELSE tr

CasTree(tr, b, k, V, old, new) ==
  IF CasMatches(tr, b, k, V, old)
  THEN [tr EXCEPT ![b][k] = EncodeOption(V, new)]
  ELSE tr

\* mutant: a mismatch is reported as an engine error
CasResultAsSled(tr, b, k, V, old) ==
  IF CasMatches(tr, b, k, V, old) THEN Ok(None) ELSE Err(ErrorFromSled(1))

\* `Ok(a?)`: the inner Result<(), CompareAndSwapError> converted to Error
CasResult(tr, b, k, V, old) ==
  IF CasMatches(tr, b, k, V, old) THEN Ok(None)
  ELSE Err(ErrorFromCompareAndSwap)

BucketCompareAndSwap(b, k, V, old, new) ==
  /\ calls < MaxCalls
  /\ tree' = CasTree(tree, b, k, V, old, new)
  /\ last' = Call("cas", b, k, V, old, new, tree, "ok",
                  CasResult(tree, b, k, V, old))
  /\ written' = [written EXCEPT ![b][k] = Unwritten]
  /\ calls' = calls + 1
  /\ watch' = IF CasMatches(tree, b, k, V, old)
              THEN Notify(watch, b, k, EncodeOption(V, new), calls + 1)
              ELSE watch
  /\ popped' = IF CasMatches(tree, b, k, V, old) /\ new.some THEN <<>> ELSE popped
  /\ UNCHANGED <<others, txn, serial, quiet>>

\* the engine call of a Bucket operation fails with a sled::Error: `?`
\* returns it converted to Error::Sled and nothing is written
EngineFailure(code) == Err(ErrorFromSled(code))

BucketCallFails(op, b, k, V, arg, new, code) ==
  /\ calls < MaxCalls
  /\ last' = Call(op, b, k, V, arg, new, tree, "failed", EngineFailure(code))
  /\ calls' = calls + 1
  /\ UNCHANGED <<others, popped, tree, written, txn, serial, watch, quiet>>

\* --------------------------------------------------------------------- Batch
\* Batch<K, V>: the writes recorded so far, values already encoded; V is
\* "none" before Batch::new and "moved" once Bucket::batch has consumed it
NoBatch == [V |-> "none", ops |-> <<>>]
MovedBatch == [V |-> "moved", ops |-> <<>>]

\* Batch::new
BatchNew(V) ==
  /\ batch.V = "none"
  /\ batch' = [V |-> V, ops |-> <<>>]
  /\ UNCHANGED <<others, popped, tree, last, written, calls, txn, serial, watch, event>>

\* Batch::set
BatchSet(k, v) ==
  /\ batch.V \in ValueTypes
  /\ Len(batch.ops) < MaxBatch
  /\ batch' = [batch EXCEPT !.ops =
                 Append(@, [k |-> k, o |-> Some(ToRawValue(batch.V, v))])]
  /\ UNCHANGED <<others, popped, tree, last, written, calls, txn, serial, watch, event>>

\* Batch::remove
BatchRemove(k) ==
  /\ batch.V \in ValueTypes
  /\ Len(batch.ops) < MaxBatch
  /\ batch' = [batch EXCEPT !.ops = Append(@, [k |-> k, o |-> None])]
  /\ UNCHANGED <<others, popped, tree, last, written, calls, txn, serial, watch, event>>

\* the engine applies the recorded writes, in order, as one step
RECURSIVE ApplyBatch(_, _, _)
ApplyBatch(tr, b, ops) ==
  IF ops = <<>> THEN tr
  ELSE ApplyBatch([tr EXCEPT ![b][Head(ops).k] = Head(ops).o], b, Tail(ops))

\* mutant: the call returns when the first write of the batch is applied
BucketBatchFirst(b) ==
  /\ calls < MaxCalls
  /\ batch.V = HandleType(b)
  /\ tree' = ApplyBatch(tree, b, IF batch.ops = <<>> THEN <<>> ELSE <<Head(batch.ops)>>)
  /\ last' = Call("batch", b, <<>>, batch.V, batch.ops, None, tree, "ok", Ok(None))
  /\ written' = written
  /\ calls' = calls + 1
  /\ watch' = watch
  /\ batch' = MovedBatch
  /\ UNCHANGED <<others, popped, txn, serial, event>>

\* Bucket::batch: the Batch is consumed
BucketBatch(b) ==
  /\ calls < MaxCalls
  /\ batch.V = HandleType(b)
  /\ tree' = ApplyBatch(tree, b, batch.ops)
  /\ last' = Call("batch", b, <<>>, batch.V, batch.ops, None, tree, "ok", Ok(None))
  /\ written' = [written EXCEPT ![b] = [k \in Keys |->
                   IF \E i \in 1..Len(batch.ops) : batch.ops[i].k = k
                   THEN Unwritten ELSE written[b][k]]]
  /\ calls' = calls + 1
  /\ watch' = NotifyAll(watch, b, batch.ops, calls + 1)
  /\ batch' = MovedBatch
  /\ popped' = IF \E i \in 1..Len(batch.ops) : batch.ops[i].o.some
               THEN <<>> ELSE popped
  /\ UNCHANGED <<others, txn, serial, event>>

\* --------------------------------------------------------------------- Watch
\* `match prefix { Some(k) => k.to_raw_key()?, None => b"".into() }`
PrefixBytes(prefix) == IF prefix.some THEN prefix.val ELSE <<>>

\* mutant: the subscriber starts with the entries the bucket already holds
WatchPrefixReplay(b, prefix) ==
  /\ ~watch.open
  /\ watch' = NotifyAll(
                [open |-> TRUE, b |-> b, arg |-> prefix,
                 prefix |-> PrefixBytes(prefix), since |-> calls,
                 queue |-> <<>>],
                b, [i \in 1..NumKeys |-> [k |-> AllKeys[i], o |-> tree[b][AllKeys[i]]]],
                calls)
  /\ UNCHANGED <<others, popped, tree, last, written, calls, txn, serial, batch, event>>

\* mutant: the prefix argument is ignored
WatchPrefixAll(b, prefix) ==
  /\ ~watch.open
  /\ watch' = [open |-> TRUE, b |-> b, arg |-> prefix, prefix |-> <<>>,
               since |-> calls, queue |-> <<>>]
  /\ UNCHANGED <<others, popped, tree, last, written, calls, txn, serial, batch, event>>

\* Bucket::watch_prefix
WatchPrefix(b, prefix) ==
  /\ ~watch.open
  /\ watch' = [open |-> TRUE, b |-> b, arg |-> prefix,
               prefix |-> PrefixBytes(prefix), since |-> calls, queue |-> <<>>]
  /\ UNCHANGED <<others, popped, tree, last, written, calls, txn, serial, batch, event>>

\* mutant: every event is reported as a Set
EventFromSledAllSet(e) == [tag |-> "Set", key |-> e.key, raw |-> e.value]

\* Event::from_sled
EventFromSled(e) ==
  IF e.kind = "Insert" THEN [tag |-> "Set", key |-> e.key, raw |-> e.value]
  ELSE [tag |-> "Remove", key |-> e.key, raw |-> <<>>]

\* Event::key, for keys of type Raw
EventKey(ev) == Ok(ev.key)

\* Event::value
EventValue(V, ev) ==
  IF ev.tag = "Remove" THEN Ok(None) ELSE FromRawValue(V, ev.raw)

NoEvent ==
  [tag |-> "none", key |-> Ok(<<>>), value |-> Ok(None), at |-> 0]

\* the subscriber hands out the oldest event it holds
WatchTake(q) == [ev |-> Head(q), rest |-> Tail(q)]

\* Iterator for Watch: next() blocks until the subscriber has an event
WatchNext ==
  LET got == WatchTake(watch.queue)
      ev == EventFromSled(got.ev)
  IN  /\ watch.open
      /\ watch.queue # <<>>
      /\ event' = [tag |-> ev.tag, key |-> EventKey(ev),
                   value |-> EventValue(HandleType(watch.b), ev),
                   at |-> got.ev.at]
      /\ watch' = [watch EXCEPT !.queue = got.rest]
      /\ UNCHANGED <<others, popped, tree, last, written, calls, txn, serial, batch>>

\* ----------------------------------------------------------------- iteration
\* the entries of a bucket as a map from the raw keys present to raw values
TreeMap(tb) == [k \in {j \in Keys : tb[j].some} |-> tb[k].val]

\* format!("{}", i)
RECURSIVE Format(_)
Format(i) == IF i < 10 THEN <<48 + i>> ELSE Format(i \div 10) \o <<48 + (i % 10)>>

\* the bucket with Integer keys: the Integer type of its keys, the target of
\* the build, and the integers i for which set(&i.into(), &format!("{}", i))
\* was called
NoInts == [I |-> "none", target |-> "little", keys |-> {}]
IntsMap(n) ==
  [r \in {IntegerFrom(n.I, n.target, i) : i \in n.keys} |->
     Utf8Encode(Format(IntegerInto(n.I, n.target, r)))]

\* the order of the engine: sled orders raw keys bytewise; the LMDB bucket of
\* the u64 Integer is opened with INTEGER_KEY and orders them as native
\* integers
KeyLess(n, a, b) ==
  IF n.I = "u64" THEN FromMem(n.target, a) < FromMem(n.target, b)
  ELSE RawLess(a, b)
MinKey(n, S) == CHOOSE k \in S : \A j \in S \ {k} : KeyLess(n, k, j)
MaxKey(n, S) == CHOOSE k \in S : \A j \in S \ {k} : KeyLess(n, j, k)

\* bucket.set(&i.into(), &format!("{}", i)) on the bucket with Integer keys
IntSet(I, target, i) ==
  /\ calls < MaxCalls
  /\ ints.I \in {"none", I}
  /\ ints.I = I => ints.target = target
  /\ i \notin ints.keys
  /\ ints' = [I |-> I, target |-> target, keys |-> ints.keys \cup {i}]
  /\ calls' = calls + 1
  /\ UNCHANGED <<tree, last, written, txn, serial, batch, watch, event, iter,
                 popped, kc, mgr,
                 store, env,
                 raws, ids, codec>>

\* Iter: src is the bucket it reads ("ints" for the one with Integer keys),
\* a and b the keys iter_range was called with, lo and hi the bounds of the
\* engine's iterator, pos the key it yielded last, out the items yielded,
\* done whether next() has returned None, since the number of Bucket calls
\* made before it was created
\* bpos is the key next_back() yielded last, rout the items it yielded, doneb
\* whether it has returned None;
\* keyed and valued are the last Item::key and Item::value calls: the
\* position i in out of the item, the type decoded to, and the result
NoItemCall == [i |-> 0, T |-> "Raw", res |-> Ok(<<>>)]
NoIter ==
  [open |-> FALSE, src |-> "A", a |-> None, b |-> None, lo |-> None,
   hi |-> None, pos |-> None, out |-> <<>>, done |-> FALSE, since |-> 0,
   keyed |-> NoItemCall, valued |-> NoItemCall,
   bpos |-> None, rout |-> <<>>, doneb |-> FALSE]

MaxRawCalls == 3
\* a bucket written through a handle of raw keys and raw values and read
\* through a handle of another type: raw keys that are text, and ones that
\* are not UTF-8
RawKeys == {<<97>>, <<128>>, <<195, 169>>}
RawValues == {<<97>>, <<255>>}
NoRaws == [k \in RawKeys |-> None]
RawsMap(rs) == [k \in {j \in RawKeys : rs[j].some} |-> rs[k].val]

\* Bucket<Raw, Raw>::set on that bucket
RawSet(k, v) ==
  /\ calls < MaxRawCalls
  /\ raws' = [raws EXCEPT ![k] = Some(v)]
  /\ calls' = calls + 1
  /\ UNCHANGED <<tree, last, written, txn, serial, batch, watch, event, iter,
                 ints, popped, kc, mgr, store, env, ids, codec>>

\* Bucket::iter
BucketIter(src) ==
  /\ ~iter.open
  /\ iter' = [NoIter EXCEPT !.open = TRUE, !.src = src, !.since = calls]
  /\ UNCHANGED <<tree, last, written, calls, txn, serial, batch, watch, event,
                 ints, popped, kc, mgr,
                 store, env,
                 raws, ids, codec>>

\* mutant: the range includes its upper end
BucketIterRangeInclusive(src, a, b) ==
  /\ ~iter.open
  /\ iter' = [NoIter EXCEPT !.open = TRUE, !.src = src, !.since = calls,
                            !.a = Some(a), !.b = Some(b),
                            !.lo = Some(ToRawKey("Raw", a)),
                            !.hi = Some(ToRawKey("Raw", b) \o <<0>>)]
  /\ UNCHANGED <<tree, last, written, calls, txn, serial, batch, watch, event,
                 ints, popped, kc, mgr,
                 store, env,
                 raws, ids, codec>>

\* Bucket::iter_range: `self.0.range(a..b)`
BucketIterRange(src, a, b) ==
  /\ ~iter.open
  /\ iter' = [NoIter EXCEPT !.open = TRUE, !.src = src, !.since = calls,
                            !.a = Some(a), !.b = Some(b),
                            !.lo = Some(ToRawKey("Raw", a)),
                            !.hi = Some(ToRawKey("Raw", b))]
  /\ UNCHANGED <<tree, last, written, calls, txn, serial, batch, watch, event,
                 ints, popped, kc, mgr,
                 store, env,
                 raws, ids, codec>>

\* mutant: the back of the iterator does not bound its front
IterRestFrontOnly(it, n, m) ==
  {k \in DOMAIN m :
     /\ (it.lo.some => ~KeyLess(n, k, it.lo.val))
     /\ (it.hi.some => KeyLess(n, k, it.hi.val))
     /\ (it.pos.some => KeyLess(n, it.pos.val, k))}

\* the keys the engine's iterator still has to visit: those of its range
\* after the key its front yielded last and before the one its back did
IterRest(it, n, m) ==
  {k \in DOMAIN m :
     /\ (it.lo.some => ~KeyLess(n, k, it.lo.val))
     /\ (it.hi.some => KeyLess(n, k, it.hi.val))
     /\ (it.pos.some => KeyLess(n, it.pos.val, k))
     /\ (it.bpos.some => KeyLess(n, k, it.bpos.val))}

\* mutant: key and value change places
IterItemSwapped(k, v) == [key |-> v, value |-> k]

\* `Some(Ok((k, v))) => Some(Ok(Item(k, v, PhantomData, PhantomData)))`
IterItem(k, v) == [key |-> k, value |-> v]

\* Iterator for Iter: next() yields the next entry of the engine's iterator,
\* or None at its end
IterStep ==
  LET n == IF iter.src = "ints" THEN ints ELSE NoInts
      m == IF iter.src = "ints" THEN IntsMap(ints)
           ELSE IF iter.src = "raws" THEN RawsMap(raws)
           ELSE TreeMap(tree[iter.src])
      rest == IterRest(iter, n, m)
      k == MinKey(n, rest)
  IN  /\ iter.open
      /\ ~iter.done
      /\ iter' = IF rest = {} THEN [iter EXCEPT !.done = TRUE]
                 ELSE [iter EXCEPT !.pos = Some(k),
                                   !.out = Append(@, IterItem(k, m[k]))]
      /\ UNCHANGED <<tree, last, written, calls, txn, serial, batch, watch,
                     event, ints, popped, kc, mgr,
                 store, env,
                 raws, ids, codec>>

\* DoubleEndedIterator for Iter: next_back() yields the last entry the
\* engine's iterator has not yielded from either end, or None
IterStepBack ==
  LET n == IF iter.src = "ints" THEN ints ELSE NoInts
      m == IF iter.src = "ints" THEN IntsMap(ints)
           ELSE IF iter.src = "raws" THEN RawsMap(raws)
           ELSE TreeMap(tree[iter.src])
      rest == IterRest(iter, n, m)
      k == MaxKey(n, rest)
  IN  /\ iter.open
      /\ ~iter.doneb
      /\ iter' = IF rest = {} THEN [iter EXCEPT !.doneb = TRUE]
                 ELSE [iter EXCEPT !.bpos = Some(k),
                                   !.rout = Append(@, IterItem(k, m[k]))]
      /\ UNCHANGED <<tree, last, written, calls, txn, serial, batch, watch,
                     event, ints, popped, kc, mgr, store, env, raws, ids, codec>>

\* the types an Item is read as
ItemKeyTypes == {"Raw", "Str", "Integer"}

\* mutant: the key is decoded only when the value of the item decodes
ItemKeyResultAfterValue(K, V, it) ==
  IF FromRawValue(V, it.value).ok THEN FromRawKey(K, it.key)
  ELSE Err(ErrorFromUtf8)

\* `let k = K::from_raw_key(&self.0)?; Ok(k.into())`
ItemKeyResult(K, V, it) == FromRawKey(K, it.key)

\* `let x = V::from_raw_value(self.1.clone())?; Ok(x.into())`
ItemValueResult(K, V, it) == FromRawValue(V, it.value)

\* Item::key on the i-th item the Iter of a Bucket<K, V> yielded
ItemKey(i, K, V) ==
  /\ iter.open
  /\ i <= Len(iter.out)
  /\ iter' = [iter EXCEPT !.keyed =
                 [i |-> i, T |-> K, res |-> ItemKeyResult(K, V, iter.out[i])]]
  /\ UNCHANGED <<tree, last, written, calls, txn, serial, batch, watch, event,
                 ints, popped, kc, mgr, store, env, raws, ids, codec>>

\* Item::value on the i-th item the Iter of a Bucket<K, V> yielded
ItemValue(i, K, V) ==
  /\ iter.open
  /\ i <= Len(iter.out)
  /\ iter' = [iter EXCEPT !.valued =
                 [i |-> i, T |-> V, res |-> ItemValueResult(K, V, iter.out[i])]]
  /\ UNCHANGED <<tree, last, written, calls, txn, serial, batch, watch, event,
                 ints, popped, kc, mgr, store, env, raws, ids, codec>>

\* ----------------------------------------------------------------------- pop
\* mutant: the entry the engine removed is dropped
PopResultNone(o) == Ok(None)

\* `Ok(x.map(|(k, v)| Item(k, v, PhantomData, PhantomData)))`
PopResult(o) == IF o.some THEN Ok(Some(IterItem(o.val.k, o.val.v))) ELSE Ok(None)

\* the entry the engine's pop_min / pop_max takes out, if there is one
PopEntry(op, tb) ==
  LET m == TreeMap(tb)
      k == IF op = "pop_front" THEN MinKey(NoInts, DOMAIN m)
           ELSE MaxKey(NoInts, DOMAIN m)
  IN  IF DOMAIN m = {} THEN None ELSE Some([k |-> k, v |-> m[k]])

\* Bucket::pop_front, Bucket::pop_back
BucketPop(op, b) ==
  LET e == PopEntry(op, tree[b])
  IN  /\ calls < MaxCalls
      /\ tree' = IF e.some THEN [tree EXCEPT ![b][e.val.k] = None] ELSE tree
      /\ last' = Call(op, b, IF e.some THEN e.val.k ELSE <<>>, HandleType(b),
                      None, None, tree, "ok", PopResult(e))
      /\ written' = IF e.some THEN [written EXCEPT ![b][e.val.k] = Unwritten]
                    ELSE written
      /\ calls' = calls + 1
      /\ watch' = IF e.some THEN Notify(watch, b, e.val.k, None, calls + 1)
                  ELSE watch
      /\ popped' = IF e.some
                   THEN Append(popped, [b |-> b, key |-> e.val.k, value |-> e.val.v])
                   ELSE popped
      /\ UNCHANGED <<others, txn, serial, quiet>>

\* ----------------------------------------------------------- key conversions
NoKey ==
  [op |-> "none", K |-> "Raw", I |-> "u128", T |-> "u32", target |-> "little",
   x |-> <<>>,
   raw |-> <<>>, back |-> Ok(<<>>), a |-> 0, b |-> 0, ra |-> <<>>, rb |-> <<>>,
   aback |-> 0]

\* a key x of type K is turned into raw bytes and read back
KeyRoundTrip(K, x) ==
  /\ kc.op = "none"
  /\ kc' = [NoKey EXCEPT !.op = "key", !.K = K, !.x = x,
                         !.raw = ToRawKey(K, x),
                         !.back = FromRawKey(K, ToRawKey(K, x))]
  /\ UNCHANGED <<tree, last, written, calls, txn, serial, batch, watch, event,
                 iter, ints, popped, mgr,
                 store, env,
                 raws, ids, codec>>

\* the Integer keys of two unsigned integers a and b are built on a target,
\* and the key of a is turned into raw bytes, read back and converted back
IntegerKeys(I, target, a, b) ==
  LET ia == IntegerFrom(I, target, a)
  IN  /\ kc.op = "none"
      /\ kc' = [NoKey EXCEPT !.op = "integer", !.I = I, !.target = target,
                             !.a = a, !.b = b,
                             !.ra = ToRawKey("Integer", ia),
                             !.rb = ToRawKey("Integer", IntegerFrom(I, target, b)),
                             !.aback = IntegerInto(I, target,
                               IntegerFromSlice(I, ToRawKey("Integer", ia)))]
      /\ UNCHANGED <<tree, last, written, calls, txn, serial, batch, watch,
                     event, iter, ints, popped, mgr,
                 store, env,
                 raws, ids, codec>>

\* the raw key r read from a bucket is decoded as a key of type K
KeyDecode(K, r) ==
  /\ kc.op = "none"
  /\ kc' = [NoKey EXCEPT !.op = "decode", !.K = K, !.raw = r,
                         !.back = FromRawKey(K, r)]
  /\ UNCHANGED <<tree, last, written, calls, txn, serial, batch, watch, event,
                 iter, ints, popped, mgr,
                 store, env,
                 raws, ids, codec>>

\* the Integer key of an integer x of a narrower type T is built on a target
IntegerNarrow(T, target, x) ==
  /\ kc.op = "none"
  /\ kc' = [NoKey EXCEPT !.op = "narrow", !.T = T, !.target = target, !.a = x,
                         !.ra = ToRawKey("Integer", IntegerFromNarrow(T, target, x))]
  /\ UNCHANGED <<tree, last, written, calls, txn, serial, batch, watch, event,
                 iter, ints, popped, mgr,
                 store, env,
                 raws, ids, codec>>

\* --------------------------------------------------------------- Transaction
\* One instruction of a closure: an operation on the h-th Transaction handle.
Instr(op, h, k, v, e) == [op |-> op, h |-> h, k |-> k, v |-> v, e |-> e]
GetI(h, k) == Instr("get", h, k, <<>>, NoError)
SetI(h, k, v) == Instr("set", h, k, v, NoError)
RemoveI(h, k) == Instr("remove", h, k, <<>>, NoError)
\* set(k, f(x)) where x is what the preceding get returned
BumpI(h, k) == Instr("bump", h, k, <<>>, NoError)
\* generate_id() through handle h
IdI(h) == Instr("id", h, <<>>, <<>>, NoError)
\* return Err(abort(e))
AbortI(e) == Instr("abort", 1, <<>>, <<>>, e)

\* the value a read-modify-write closure computes from the value it read
Bump(o) == IF o.some THEN o.val \o <<97>> ELSE <<97>>

\* the id generator of the engine: the next id it hands out, and the ids
\* generate_id returned, each with the thread and the attempt it was made in
NoIds == [next |-> 0, got |-> <<>>]
\* the ids the engine may pass over before the one it hands out
IdGaps == {0, 1}

\* mutant: the generator does not move past the id it handed out
EngineIdNextStays(next, gap) == next

\* the generator after it handed out next + gap
EngineIdNext(next, gap) == next + gap + 1

\* Transaction::generate_id by thread p in its attempt-th run of the closure
TxnGenerateId(s, p, attempt, gap) ==
  [next |-> EngineIdNext(s.next, gap),
   got |-> Append(s.got, [p |-> p, attempt |-> attempt, id |-> s.next + gap])]

\* closures that call generate_id and read and write a key
IdClosures ==
  {<<IdI(1), GetI(1, k), BumpI(1, k)>> : k \in Keys}
  \cup {<<GetI(1, k), IdI(1), IdI(1), BumpI(1, k)>> : k \in Keys}

\* the buckets a transaction/transaction2/transaction3 call is made over
Parts == {<<"A">>, <<"B">>, <<"A", "B">>, <<"B", "C">>, <<"A", "B", "C">>}

FirstValue(V) == IF V = "Raw" THEN <<255>> ELSE <<233>>

\* a closure writing through every handle: set on odd handles, remove on even
WriteAll(parts, k) ==
  [h \in 1..Len(parts) |->
     IF h % 2 = 1 THEN SetI(h, k, FirstValue(HandleType(parts[h])))
     ELSE RemoveI(h, k)]

\* the closures passed to a transaction call over parts
Closures(parts) ==
  LET n == Len(parts)
  IN  {WriteAll(parts, k) : k \in Keys}
      \cup {WriteAll(parts, k) \o <<AbortI(e)>> : k \in Keys, e \in AppErrors}
      \cup (IF n <= 2 THEN {<<GetI(1, k), BumpI(n, k)>> : k \in Keys} ELSE {})
      \cup (IF n = 1
            THEN {<<SetI(1, k, FirstValue(HandleType(parts[1]))), GetI(1, k)>> :
                    k \in Keys}
                 \cup {<<RemoveI(1, k), GetI(1, k)>> : k \in Keys}
            ELSE {})

\* an entry of the write overlay / read cache of a TransactionalTree
Absent == [in |-> FALSE, val |-> None]
Present(o) == [in |-> TRUE, val |-> o]
EmptyOverlay == [h \in 1..3 |-> [k \in Keys |-> Absent]]

\* what the engine's transaction call returns (sled TransactionResult)
EngineOk(x) == [tag |-> "Ok", val |-> x, err |-> NoError, code |-> 0]
EngineAbort(e) == [tag |-> "Abort", val |-> None, err |-> e, code |-> 0]
EngineStorage(code) == [tag |-> "Storage", val |-> None, err |-> NoError, code |-> code]

Idle ==
  [phase |-> "idle", parts |-> <<>>, prog |-> <<>>, ip |-> 1,
   writes |-> EmptyOverlay, reads |-> EmptyOverlay, local |-> None,
   attempts |-> 0, engine |-> EngineOk(None), result |-> Ok(None)]

\* what a read of key k through handle h of transaction t observes
TxnRead(t, tr, h, k) ==
  IF t.writes[h][k].in THEN t.writes[h][k].val
  ELSE IF t.reads[h][k].in THEN t.reads[h][k].val
  ELSE tr[t.parts[h]][k]

\* the read cache after a read of key k through handle h
TxnNoteRead(t, tr, h, k) ==
  IF t.writes[h][k].in \/ t.reads[h][k].in THEN t.reads
  ELSE [t.reads EXCEPT ![h][k] = Present(tr[t.parts[h]][k])]

\* mutant: the read bypasses the transactional tree and is not recorded
TxnGetUntracked(t, tr, h, k) == t

\* Transaction::get
TxnGet(t, tr, h, k) ==
  [t EXCEPT !.reads = TxnNoteRead(t, tr, h, k)]

\* mutant: the value is read from the committed tree, not the transaction
TxnGetResultCommitted(t, tr, h, k) ==
  DecodeOption(HandleType(t.parts[h]), tr[t.parts[h]][k])

TxnGetResult(t, tr, h, k) ==
  DecodeOption(HandleType(t.parts[h]), TxnRead(t, tr, h, k))

\* Transaction::set
TxnSet(t, tr, h, k, v) ==
  [t EXCEPT !.reads = TxnNoteRead(t, tr, h, k),
            !.writes[h][k] = Present(Some(ToRawValue(HandleType(t.parts[h]), v)))]

\* Transaction::remove
TxnRemove(t, tr, h, k) ==
  [t EXCEPT !.reads = TxnNoteRead(t, tr, h, k),
            !.writes[h][k] = Present(None)]

\* mutant: every engine Err is converted as if it were a storage error
TransactionResultAllStorage(r) ==
  IF r.tag = "Ok" THEN Ok(r.val) ELSE Err(ErrorFromSled(r.code))

\* `match result`: what Bucket::transaction{,2,3} returns for the engine's result
TransactionResult(r) ==
  IF r.tag = "Ok" THEN Ok(r.val)
  ELSE IF r.tag = "Abort" THEN Err(r.err)
  ELSE Err(ErrorFromSled(r.code))

\* the engine's transaction call returns r: the call leaves the Open state
TxnReturn(t, r) ==
  [t EXCEPT !.phase = "done", !.engine = r, !.result = TransactionResult(r)]

\* mutant: only the bucket the method is called on is in the transaction
TxnScopeSelfOnly(parts) == {1}

\* the handles whose writes one engine transaction covers: the whole tuple
\* `(&self.0, &other.0, ...)` the transaction is made over
TxnScope(parts) == 1..Len(parts)

\* mutant: a failed conversion is handed to the engine as a storage error
ConversionErrorAsStorage(e) == EngineStorage(1)

\* `.map_err(TransactionError::Abort)?`: the closure returns the Error of a
\* failed conversion as an abort
ConversionError(e) == EngineAbort(e)

\* the call starts: the engine invokes the closure on fresh handles
TxnStart(p, parts, prog) ==
  /\ txn[p].phase = "idle"
  /\ txn' = [txn EXCEPT ![p] =
               [Idle EXCEPT !.phase = "open", !.parts = parts, !.prog = prog,
                            !.attempts = 1]]
  /\ UNCHANGED <<others, popped, tree, last, written, calls, serial, watch, quiet>>

\* the closure executes its next instruction; a failed operation is
\* propagated by `?` and ends the closure with that abort
TxnStep(p) ==
  LET t == txn[p]
      i == t.prog[t.ip]
      r == IF i.op = "id" THEN Ok(t.local) ELSE TxnGetResult(t, tree, i.h, i.k)
      t2 == IF i.op = "get" THEN TxnGet(t, tree, i.h, i.k)
            ELSE IF i.op = "set" THEN TxnSet(t, tree, i.h, i.k, i.v)
            ELSE IF i.op = "bump" THEN TxnSet(t, tree, i.h, i.k, Bump(t.local))
            ELSE IF i.op = "id" THEN t
            ELSE TxnRemove(t, tree, i.h, i.k)
  IN  /\ t.phase = "open"
      /\ t.ip <= Len(t.prog)
      /\ i.op # "abort"
      /\ txn' = [txn EXCEPT ![p] =
                   IF r.ok
                   THEN [t2 EXCEPT !.ip = t.ip + 1, !.local = r.val]
                   ELSE TxnReturn(t2, ConversionError(r.err))]
      /\ IF i.op = "id"
         THEN \E gap \in IdGaps : ids' = TxnGenerateId(ids, p, t.attempts, gap)
         ELSE ids' = ids
      /\ UNCHANGED <<iter, ints, kc, mgr, store, env, raws, codec, popped, tree,
                     last,
                     written, calls, serial, watch, quiet>>

\* the trees after the writes of the attempt are applied
CommitTree(t, tr) ==
  [b \in Buckets |-> [k \in Keys |->
     IF \E h \in TxnScope(t.parts) : t.parts[h] = b /\ t.writes[h][k].in
     THEN LET h == CHOOSE h \in TxnScope(t.parts) : t.parts[h] = b
          IN  t.writes[h][k].val
     ELSE tr[b][k]]]

\* mutant: the writes made before the abort are applied
TxnAbortCommits(p) ==
  LET t == txn[p]
  IN  /\ t.phase = "open"
      /\ t.ip <= Len(t.prog)
      /\ t.prog[t.ip].op = "abort"
      /\ txn' = [txn EXCEPT ![p] = TxnReturn(t, EngineAbort(t.prog[t.ip].e))]
      /\ tree' = CommitTree(t, tree)
      /\ UNCHANGED <<others, popped, last, written, calls, serial, watch, quiet>>

\* the closure returns abort(e)
TxnAbort(p) ==
  LET t == txn[p]
  IN  /\ t.phase = "open"
      /\ t.ip <= Len(t.prog)
      /\ t.prog[t.ip].op = "abort"
      /\ txn' = [txn EXCEPT ![p] = TxnReturn(t, EngineAbort(t.prog[t.ip].e))]
      /\ UNCHANGED <<others, popped, tree, last, written, calls, serial, watch, quiet>>

\* every value the attempt read is still the committed one
TxnValid(t, tr) ==
  \A h \in 1..Len(t.parts), k \in Keys :
    t.reads[h][k].in => tr[t.parts[h]][k] = t.reads[h][k].val

\* ---- the closure as a function of the trees (reference semantics)
RECURSIVE SerialRun(_, _, _, _, _)
SerialRun(tr, parts, prog, ip, local) ==
  IF ip > Len(prog) THEN [tree |-> tr, res |-> Ok(local)]
  ELSE LET i == prog[ip]
           b == parts[i.h]
           V == HandleType(b)
           cur == IF i.op = "abort" THEN Ok(None)
                  ELSE IF i.op = "id" THEN Ok(local)
                  ELSE DecodeOption(V, tr[b][i.k])
           tr2 == IF i.op = "set"
                    THEN [tr EXCEPT ![b][i.k] = Some(ToRawValue(V, i.v))]
                  ELSE IF i.op = "bump"
                    THEN [tr EXCEPT ![b][i.k] = Some(ToRawValue(V, Bump(local)))]
                  ELSE IF i.op = "remove" THEN [tr EXCEPT ![b][i.k] = None]
                  ELSE tr
       IN  IF i.op = "abort" THEN [tree |-> tr, res |-> Err(i.e)]
           ELSE IF ~cur.ok THEN [tree |-> tr, res |-> cur]
           ELSE SerialRun(tr2, parts, prog, ip + 1, cur.val)

\* the writes of handle h of the attempt, in key order
WritesOf(t, h) ==
  LET ks == {k \in Keys : t.writes[h][k].in}
      at(i) == CHOOSE k \in ks :
                 Cardinality({j \in ks : RawLess(j, k)}) = i - 1
  IN  [i \in 1..Cardinality(ks) |->
         [k |-> at(i), o |-> t.writes[h][at(i)].val]]

\* the subscriber is told of every write of the commit, handle by handle
RECURSIVE NotifyCommit(_, _, _, _)
NotifyCommit(w, t, h, at) ==
  IF h > Len(t.parts) THEN w
  ELSE NotifyCommit(NotifyAll(w, t.parts[h], WritesOf(t, h), at), t, h + 1, at)

\* the closure returned Ok and no read is stale: all writes commit together
TxnCommit(p) ==
  LET t == txn[p]
  IN  /\ t.phase = "open"
      /\ t.ip > Len(t.prog)
      /\ TxnValid(t, tree)
      /\ tree' = CommitTree(t, tree)
      /\ txn' = [txn EXCEPT ![p] = TxnReturn(t, EngineOk(t.local))]
      /\ written' = [b \in Buckets |-> [k \in Keys |->
                       IF tree'[b][k] = tree[b][k] THEN written[b][k]
                       ELSE Unwritten]]
      /\ serial' = SerialRun(serial, t.parts, t.prog, 1, None).tree
      /\ watch' = NotifyCommit(watch, t, 1, calls + 1)
      /\ popped' = IF \E h \in 1..Len(t.parts), k \in Keys :
                       t.writes[h][k].in /\ t.writes[h][k].val.some
                   THEN <<>> ELSE popped
      /\ UNCHANGED <<others, last, calls, quiet>>

\* mutant: the closure is invoked again on the stale reads of the attempt
TxnConflictKeepsReads(p) ==
  LET t == txn[p]
  IN  /\ t.phase = "open"
      /\ t.ip > Len(t.prog)
      /\ ~TxnValid(t, tree)
      /\ txn' = [txn EXCEPT ![p] =
                   [t EXCEPT !.ip = 1, !.writes = EmptyOverlay, !.local = None]]
      /\ UNCHANGED <<others, popped, tree, last, written, calls, serial, watch, quiet>>

\* the closure returned Ok but a read is stale: the attempt is discarded and
\* the closure is invoked again
TxnConflict(p) ==
  LET t == txn[p]
  IN  /\ t.phase = "open"
      /\ t.ip > Len(t.prog)
      /\ ~TxnValid(t, tree)
      /\ txn' = [txn EXCEPT ![p] =
                   [t EXCEPT !.ip = 1, !.writes = EmptyOverlay,
                             !.reads = EmptyOverlay, !.local = None,
                             !.attempts = t.attempts + 1]]
      /\ UNCHANGED <<others, popped, tree, last, written, calls, serial, watch, quiet>>

\* an engine operation of the attempt fails: Err(Storage(e))
TxnStorageFails(p, code) ==
  LET t == txn[p]
  IN  /\ t.phase = "open"
      /\ txn' = [txn EXCEPT ![p] = TxnReturn(t, EngineStorage(code))]
      /\ UNCHANGED <<others, popped, tree, last, written, calls, serial, watch, quiet>>

\* ------------------------------------------------------------------- codecs
\* the codecs a value type is wrapped in, the types wrapped, and values of
\* each type: an integer, a bool (0 or 1), the code points of a String
Codecs == {"Json", "Msgpack"}
InnerTypes == {"u8", "bool", "String"}
InnerValues(T) ==
  IF T = "u8" THEN (0..20) \cup {48, 49, 57, 99, 127, 128, 200, 255}
  ELSE IF T = "bool" THEN {0, 1}
  ELSE {<<>>, <<97>>, <<233>>}

ErrorJson == [kind |-> "Json", code |-> 0]
ErrorMsgpackDecode == [kind |-> "MsgpackDecode", code |-> 0]
\* Err(e) of a decode to the type T
DecodeFailed(T, e) ==
  [ok |-> FALSE, val |-> IF T = "String" THEN <<>> ELSE 0, err |-> e]

\* serde_json::to_vec
JsonToVec(T, x) ==
  IF T = "u8" THEN Format(x)
  ELSE IF T = "bool"
  THEN (IF x = 1 THEN <<116, 114, 117, 101>> ELSE <<102, 97, 108, 115, 101>>)
  ELSE <<34>> \o Utf8Encode(x) \o <<34>>

\* JSON whitespace around the value is skipped
IsJsonSpace(b) == b \in {9, 10, 13, 32}
RECURSIVE JsonTrimLeft(_)
JsonTrimLeft(r) ==
  IF r # <<>> /\ IsJsonSpace(Head(r)) THEN JsonTrimLeft(Tail(r)) ELSE r
RECURSIVE JsonTrimRight(_)
JsonTrimRight(r) ==
  IF r # <<>> /\ IsJsonSpace(r[Len(r)])
  THEN JsonTrimRight(SubSeq(r, 1, Len(r) - 1)) ELSE r
\* the decimal number the digits spell
RECURSIVE JsonNumber(_)
JsonNumber(r) ==
  IF r = <<>> THEN 0
  ELSE 10 * JsonNumber(SubSeq(r, 1, Len(r) - 1)) + (r[Len(r)] - 48)

\* serde_json::from_slice
JsonFromSlice(T, raw) ==
  LET r == JsonTrimRight(JsonTrimLeft(raw))
      digits == r # <<>> /\ \A i \in 1..Len(r) : r[i] \in 48..57
      inner == SubSeq(r, 2, Len(r) - 1)
  IN  IF T = "u8"
      THEN IF /\ digits
              /\ Len(r) <= 3
              /\ (Len(r) > 1 => r[1] # 48)
              /\ JsonNumber(r) <= 255
           THEN Ok(JsonNumber(r)) ELSE DecodeFailed(T, ErrorJson)
      ELSE IF T = "bool"
      THEN IF r = <<116, 114, 117, 101>> THEN Ok(1)
           ELSE IF r = <<102, 97, 108, 115, 101>> THEN Ok(0)
           ELSE DecodeFailed(T, ErrorJson)
      ELSE IF /\ Len(r) >= 2
              /\ r[1] = 34
              /\ r[Len(r)] = 34
              /\ \A i \in 1..Len(inner) : inner[i] >= 32 /\ inner[i] \notin {34, 92}
              /\ Utf8Valid(inner, 1)
           THEN Ok(Utf8Decode(inner, 1)) ELSE DecodeFailed(T, ErrorJson)

\* rmp_serde::to_vec: positive fixint or uint 8; false or true; fixstr
MsgpackToVec(T, x) ==
  IF T = "u8" THEN (IF x < 128 THEN <<x>> ELSE <<204, x>>)
  ELSE IF T = "bool" THEN (IF x = 1 THEN <<195>> ELSE <<194>>)
  ELSE <<160 + Len(Utf8Encode(x))>> \o Utf8Encode(x)

\* the first MessagePack value of raw read as a T, and the bytes it takes
MsgpackFirst(T, raw) ==
  IF raw = <<>> THEN [res |-> DecodeFailed(T, ErrorMsgpackDecode), used |-> 0]
  ELSE IF T = "u8"
  THEN IF raw[1] <= 127 THEN [res |-> Ok(raw[1]), used |-> 1]
       ELSE IF raw[1] = 204 /\ Len(raw) >= 2 THEN [res |-> Ok(raw[2]), used |-> 2]
       ELSE [res |-> DecodeFailed(T, ErrorMsgpackDecode), used |-> 0]
  ELSE IF T = "bool"
  THEN IF raw[1] \in {194, 195} THEN [res |-> Ok(raw[1] - 194), used |-> 1]
       ELSE [res |-> DecodeFailed(T, ErrorMsgpackDecode), used |-> 0]
  ELSE IF /\ raw[1] \in 160..191
          /\ Len(raw) >= 1 + (raw[1] - 160)
          /\ Utf8Valid(SubSeq(raw, 2, 1 + (raw[1] - 160)), 1)
       THEN [res |-> Ok(Utf8Decode(SubSeq(raw, 2, 1 + (raw[1] - 160)), 1)),
             used |-> 1 + (raw[1] - 160)]
       ELSE [res |-> DecodeFailed(T, ErrorMsgpackDecode), used |-> 0]

\* mutant: the decoder rejects the positive fixint format
MsgpackFromSliceNoFixint(T, raw) ==
  IF T = "u8" /\ raw # <<>> /\ raw[1] <= 127
  THEN {DecodeFailed(T, ErrorMsgpackDecode)}
  ELSE {MsgpackFirst(T, raw).res}

\* rmp_serde::from_slice: the results it may give; bytes left over after the
\* value are ignored or an error, as the version of the decoder has it
MsgpackFromSlice(T, raw) ==
  LET f == MsgpackFirst(T, raw)
  IN  IF f.res.ok /\ f.used < Len(raw)
      THEN {f.res, DecodeFailed(T, ErrorMsgpackDecode)}
      ELSE {f.res}

\* Value::to_raw_value and Value::from_raw_value of the codec C
CodecToRaw(C, T, x) ==
  IF C = "Json" THEN JsonToVec(T, x) ELSE MsgpackToVec(T, x)
CodecFromRaw(C, T, raw) ==
  IF C = "Json" THEN {JsonFromSlice(T, raw)} ELSE MsgpackFromSlice(T, raw)

\* no value written: x is the value set last, w the codec it was written
\* with, raw the bytes stored, r the codec of the last get and res its result
NoCodec ==
  [T |-> "u8", x |-> 0, w |-> "none", raw |-> <<>>, r |-> "none",
   res |-> Ok(0)]

\* Bucket<_, C<T>>::set of the value x
CodecSet(C, T, x) ==
  /\ codec' = [T |-> T, x |-> x, w |-> C, raw |-> CodecToRaw(C, T, x),
               r |-> "none", res |-> Ok(0)]
  /\ UNCHANGED <<tree, last, written, calls, txn, serial, batch, watch, event,
                 iter, ints, popped, kc, mgr, store, env, raws, ids>>

\* Bucket<_, C<T>>::get of the key, through a handle of the same T
CodecGet(C) ==
  /\ codec.w # "none"
  /\ codec.r = "none"
  /\ \E res \in CodecFromRaw(C, codec.T, codec.raw) :
       codec' = [codec EXCEPT !.r = C, !.res = res]
  /\ UNCHANGED <<tree, last, written, calls, txn, serial, batch, watch, event,
                 iter, ints, popped, kc, mgr, store, env, raws, ids>>

\* ------------------------------------------------- writes of codec values
\* a value of a Bucket<_, C<u8>> handle as the caller passes it: x is the
\* integer, bad tells that serializing it fails (serde's Serialize returns
\* an error to the serializer)
EncInts == {1, 200}
\* the writes recorded in one batch of codec values
MaxEncBatch == 2
ErrorMsgpackEncode == [kind |-> "MsgpackEncode", code |-> 0]
EncodeError(C) == IF C = "Json" THEN ErrorJson ELSE ErrorMsgpackEncode
EncodeFailed(e) == [ok |-> FALSE, val |-> <<>>, err |-> e]

\* Value::to_raw_value of C<u8>: `let x = $ser(&self.0)?; Ok(x.into())`
ValueToRaw(C, x, bad) ==
  IF bad THEN EncodeFailed(EncodeError(C)) ELSE Ok(CodecToRaw(C, "u8", x))
\* `match old { Some(x) => Some(x.to_raw_value()?), None => None }`
OptionToRaw(C, o, bad) ==
  IF o.some
  THEN (IF bad THEN EncodeFailed(EncodeError(C))
        ELSE Ok(Some(CodecToRaw(C, "u8", o.val[1]))))
  ELSE Ok(None)

\* the value an insert returns, decoded: Result<Option<V>, Error>
EncOldResults(C, o) ==
  IF o.some
  THEN {IF f.ok THEN Ok(Some(<<f.val>>)) ELSE Err(f.err) :
          f \in CodecFromRaw(C, "u8", o.val)}
  ELSE {Ok(None)}

\* mutant: the insert is made with whatever the conversion left behind
EncSetTreeUnchecked(tr, b, k, r) == [tr EXCEPT ![b][k] = Some(r.val)]

\* Bucket::set: `let v = value.to_raw_value()?;` returns before the insert
EncSetTree(tr, b, k, r) ==
  IF r.ok THEN [tr EXCEPT ![b][k] = Some(r.val)] ELSE tr

EncBucketSet(b, k, C, x, bad) ==
  LET r == ValueToRaw(C, x, bad)
  IN  /\ calls < MaxCalls
      /\ tree' = EncSetTree(tree, b, k, r)
      /\ \E res \in (IF r.ok THEN EncOldResults(C, tree[b][k]) ELSE {Err(r.err)}) :
           last' = Call("set", b, k, C, Some(<<x>>), None, tree,
                        IF r.ok THEN "ok" ELSE "none", res)
      /\ written' = [written EXCEPT ![b][k] = Unwritten]
      /\ calls' = calls + 1
      /\ watch' = IF r.ok THEN Notify(watch, b, k, Some(r.val), calls + 1) ELSE watch
      /\ popped' = IF r.ok THEN <<>> ELSE popped
      /\ UNCHANGED <<others, txn, serial, quiet>>

\* Bucket::compare_and_swap: `old` is converted, then `value`, then the
\* engine is called
EncCasTree(tr, b, k, ro, rn) ==
  IF ro.ok /\ rn.ok /\ tr[b][k] = ro.val THEN [tr EXCEPT ![b][k] = rn.val] ELSE tr
EncCasResult(tr, b, k, ro, rn) ==
  IF ~ro.ok THEN Err(ro.err)
  ELSE IF ~rn.ok THEN Err(rn.err)
  ELSE IF tr[b][k] = ro.val THEN Ok(None)
  ELSE Err(ErrorFromCompareAndSwap)

EncBucketCompareAndSwap(b, k, C, old, oldbad, new, newbad) ==
  LET ro == OptionToRaw(C, old, oldbad)
      rn == OptionToRaw(C, new, newbad)
  IN  /\ calls < MaxCalls
      /\ tree' = EncCasTree(tree, b, k, ro, rn)
      /\ last' = Call("cas", b, k, C, old, new, tree,
                      IF ro.ok /\ rn.ok THEN "ok" ELSE "none",
                      EncCasResult(tree, b, k, ro, rn))
      /\ written' = [written EXCEPT ![b][k] = Unwritten]
      /\ calls' = calls + 1
      /\ watch' = IF tree'[b][k] # tree[b][k] \/ (ro.ok /\ rn.ok /\ tree[b][k] = ro.val)
                  THEN Notify(watch, b, k, rn.val, calls + 1)
                  ELSE watch
      /\ popped' = IF tree'[b][k].some /\ tree'[b][k] # tree[b][k] THEN <<>> ELSE popped
      /\ UNCHANGED <<others, txn, serial, quiet>>

\* Batch::set of a Batch<_, C<u8>>: `let v = value.to_raw_value()?;` returns
\* before the write is recorded
EncBatchOps(ops, k, r) ==
  IF r.ok THEN Append(ops, [k |-> k, o |-> Some(r.val)]) ELSE ops

EncBatchSet(k, x, bad) ==
  LET r == ValueToRaw(batch.V, x, bad)
  IN  /\ batch.V \in Codecs
      /\ Len(batch.ops) < MaxEncBatch
      /\ batch' = [batch EXCEPT !.ops = EncBatchOps(@, k, r)]
      /\ last' = Call("batch_set", "A", k, batch.V, Some(<<x>>), None, tree,
                      "none", IF r.ok THEN Ok(None) ELSE Err(r.err))
      /\ UNCHANGED <<others, popped, tree, written, calls, txn, serial, watch, event>>

\* Bucket::batch through a Bucket<_, C<u8>> handle
EncBucketBatch(b) ==
  /\ calls < MaxCalls
  /\ batch.V \in Codecs
  /\ tree' = ApplyBatch(tree, b, batch.ops)
  /\ last' = Call("batch", b, <<>>, batch.V, None, None, tree, "ok", Ok(None))
  /\ written' = [written EXCEPT ![b] = [k \in Keys |->
                   IF \E i \in 1..Len(batch.ops) : batch.ops[i].k = k
                   THEN Unwritten ELSE written[b][k]]]
  /\ calls' = calls + 1
  /\ watch' = NotifyAll(watch, b, batch.ops, calls + 1)
  /\ batch' = MovedBatch
  /\ popped' = IF batch.ops # <<>> THEN <<>> ELSE popped
  /\ UNCHANGED <<others, txn, serial, event>>

\* ------------------------------------------------------ Manager (LMDB variant)
MaxOpens == 3

\* the ways the application spells the path of a store, and the canonical
\* path `canonicalize` resolves each to when the directory exists
Paths == {"db", "./db", "other"}
Canon(path) == IF path = "other" THEN "/other" ELSE "/db"
CanonPaths == {Canon(path) : path \in Paths}
\* the PathBuf values a registry key may be
KeyPaths == Paths \cup CanonPaths

ErrorIO == [kind |-> "IO", code |-> 0]
ErrorLMDB == [kind |-> "LMDB", code |-> 0]

\* Err(e) of a call that returns a handle
Failed(e) == [ok |-> FALSE, val |-> 0, err |-> e]

\* Path::canonicalize: an io::Error when the path does not exist
Canonicalize(path, dirs) ==
  IF Canon(path) \in dirs THEN Ok(Canon(path)) ELSE Err(ErrorIO)

\* Manager::new, on a disk with no store directory; stores[key] is the Arc
\* registered under key (0: none), Arcs being numbered as they are allocated
\* files is the set of the files on the disk, each <<directory, name>>, and
\* lost the files the last call deleted
NoManager ==
  [stores |-> [key \in KeyPaths |-> 0], dirs |-> {}, arcs |-> 0, n |-> 0,
   opens |-> [c \in CanonPaths |-> 0], got |-> [c \in CanonPaths |-> {}],
   op |-> "none", path |-> "db", found |-> FALSE, res |-> Ok(0),
   files |-> {}, lost |-> {}]

\* the files of an environment, and a file of the application
EnvFileNames == {"data.mdb", "lock.mdb"}
AppFileNames == {"notes"}
FilesUnder(files, c) == {f \in files : f[1] = c}

\* the application writes a file into the directory of a store
WriteFile(path, name) ==
  /\ Canon(path) \in mgr.dirs
  /\ <<Canon(path), name>> \notin mgr.files
  /\ mgr' = [mgr EXCEPT !.files = @ \cup {<<Canon(path), name>>}]
  /\ UNCHANGED <<tree, last, written, calls, txn, serial, batch, watch, event,
                 iter, ints, popped, kc, store, env,
                 raws, ids, codec>>

\* the application creates the directory of a store (fs::create_dir_all)
CreateDir(path) ==
  /\ Canon(path) \notin mgr.dirs
  /\ mgr' = [mgr EXCEPT !.dirs = @ \cup {Canon(path)}]
  /\ UNCHANGED <<tree, last, written, calls, txn, serial, batch, watch, event,
                 iter, ints, popped, kc, store, env,
                 raws, ids, codec>>

\* mutant: the registry is keyed by the path as the caller spelled it
ManagerKeyAsGiven(path, canonical) == path

\* the key of the registry entry of a path: `map.entry(canonical)`
ManagerKey(path, canonical) == canonical

\* Manager::get: Ok(0) stands for Ok(None)
ManagerGet(path) ==
  LET canonical == Canonicalize(path, mgr.dirs)
      h == mgr.stores[ManagerKey(path, canonical.val)]
  IN  /\ mgr.n < MaxOpens
      /\ mgr' = [mgr EXCEPT
                   !.n = @ + 1, !.op = "get", !.path = path,
                   !.found = canonical.ok, !.lost = {},
                   !.res = IF canonical.ok THEN Ok(h) ELSE Failed(canonical.err),
                   !.got = IF canonical.ok /\ h # 0
                           THEN [@ EXCEPT ![canonical.val] = @ \cup {h}] ELSE @]
      /\ UNCHANGED <<tree, last, written, calls, txn, serial, batch, watch,
                     event, iter, ints, popped, kc, store, env,
                 raws, ids, codec>>

\* Config::env: create_dir_all, then Environment::open, which the engine
\* may fail; a failed open removes the directory
ConfigEnv(path, dirs, opened) ==
  IF opened THEN [ok |-> TRUE, dirs |-> dirs \cup {Canon(path)}]
  ELSE [ok |-> FALSE, dirs |-> dirs \ {Canon(path)}]

\* mutant: a failed open leaves the directory and its files alone
EnvFilesKept(path, files, opened) ==
  IF opened THEN files \cup {<<Canon(path), name>> : name \in EnvFileNames}
  ELSE files

\* the files on the disk after Config::env: Environment::open creates the
\* files of the environment; `let _ = fs::remove_dir_all(&self.path)` after
\* a failed open deletes the directory with everything under it
EnvFiles(path, files, opened) ==
  IF opened THEN files \cup {<<Canon(path), name>> : name \in EnvFileNames}
  ELSE files \ FilesUnder(files, Canon(path))

\* Store::new(config) with config.path = path: `let env = config.env()?;`
StoreNewAt(path, opened) ==
  LET e == ConfigEnv(path, mgr.dirs, opened)
      files == EnvFiles(path, mgr.files, opened)
  IN  /\ mgr.n < MaxOpens
      /\ mgr' = [mgr EXCEPT !.n = @ + 1, !.op = "store_new", !.path = path,
                            !.found = FALSE,
                            !.res = IF e.ok THEN Ok(0) ELSE Failed(ErrorLMDB),
                            !.dirs = e.dirs, !.files = files,
                            !.lost = mgr.files \ files]
      /\ UNCHANGED <<tree, last, written, calls, txn, serial, batch, watch,
                     event, iter, ints, popped, kc, store, env,
                     raws, ids, codec>>

\* mutant: the path is not canonicalized before the registry is consulted
GetOrCreateCanonicalNoCheck(path, dirs) == Ok(Canon(path))

\* `cfg.path.as_path().canonicalize()?` of get_or_create
GetOrCreateCanonical(path, dirs) == Canonicalize(path, dirs)

\* mutant: an occupied entry is replaced by a new handle
EntryOccupiedNever(h) == FALSE

\* Entry::Occupied
EntryOccupied(h) == h # 0

\* Manager::get_or_create with cfg.path = path; opened tells whether the
\* engine opens the environment
ManagerGetOrCreate(path, opened) ==
  LET canonical == GetOrCreateCanonical(path, mgr.dirs)
      key == ManagerKey(path, canonical.val)
      h == mgr.stores[key]
      e == ConfigEnv(path, mgr.dirs, opened)
      files == EnvFiles(path, mgr.files, opened)
      k == mgr.arcs + 1
  IN  /\ mgr.n < MaxOpens
      /\ mgr' =
           IF ~canonical.ok
           THEN [mgr EXCEPT !.n = @ + 1, !.op = "get_or_create", !.path = path,
                            !.found = FALSE, !.res = Failed(canonical.err),
                            !.lost = {}]
           ELSE IF EntryOccupied(h)
           THEN [mgr EXCEPT !.n = @ + 1, !.op = "get_or_create", !.path = path,
                            !.found = TRUE, !.res = Ok(h),
                            !.got[canonical.val] = @ \cup {h}, !.lost = {}]
           ELSE IF ~e.ok
           THEN [mgr EXCEPT !.n = @ + 1, !.op = "get_or_create", !.path = path,
                            !.found = FALSE, !.res = Failed(ErrorLMDB),
                            !.dirs = e.dirs, !.files = files,
                            !.lost = mgr.files \ files]
           ELSE [mgr EXCEPT !.n = @ + 1, !.op = "get_or_create", !.path = path,
                            !.found = FALSE, !.res = Ok(k), !.dirs = e.dirs,
                            !.files = files, !.lost = {},
                            !.arcs = k, !.stores[key] = k,
                            !.opens[canonical.val] = @ + 1,
                            !.got[canonical.val] = @ \cup {k}]
      /\ UNCHANGED <<tree, last, written, calls, txn, serial, batch, watch,
                     event, iter, ints, popped, kc, store, env,
                 raws, ids, codec>>

\* -------------------------------------------------- Config and Store (LMDB)
\* bucket names, and Flag; "none" stands for no entry of a HashMap
Names == {"test", "aaa"}
Flags == {"Default", "ReverseKey", "IntegerKey"}
NoBuckets == [name \in Names |-> "none"]

ErrorInvalidBucket == [kind |-> "InvalidBucket", code |-> 0]
ErrorReadOnly == [kind |-> "ReadOnly", code |-> 0]

\* Result<Bucket, Error>: the bucket is known by the database flags it has
OkBucket(f) == [ok |-> TRUE, val |-> f, err |-> NoError]
ErrBucket(e) == [ok |-> FALSE, val |-> {}, err |-> e]

\* lmdb::EnvironmentFlags, a set of bits: a value is the set of the flags
\* it holds
EnvFlags == {"NO_SYNC", "NO_TLS"}
FlagArgs == SUBSET EnvFlags \ {{}}

\* Config::default, and no Store made yet; flagged is the argument of the
\* last Config::flag call and before the flags the Config held when it was
\* made
NoStore ==
  [cfg |-> [readonly |-> FALSE, buckets |-> NoBuckets, flags |-> {}],
   made |-> FALSE,
   buckets |-> NoBuckets, op |-> "none", name |-> "test", int |-> FALSE,
   res |-> ErrBucket(NoError), flagged |-> {}, before |-> {}]

\* mutant: the flags with f inserted are the ones stored
ConfigFlagStoredInserted(flags, f) == flags \cup f

\* Config::flag: `let mut flags = self.flags(); flags.insert(f);
\* self.flags = f.bits();` -- the local with f inserted is dropped
ConfigFlagStored(flags, f) == f

ConfigFlag(f) ==
  /\ ~store.made
  /\ store' = [store EXCEPT !.cfg.flags = ConfigFlagStored(store.cfg.flags, f),
                            !.flagged = f, !.before = store.cfg.flags]
  /\ UNCHANGED <<tree, last, written, calls, txn, serial, batch, watch, event,
                 iter, ints, popped, kc, mgr, env,
                 raws, ids, codec>>

\* Config::bucket(name, f): `f.unwrap_or(Flag::Default)`
ConfigBucket(name, f) ==
  /\ ~store.made
  /\ store' = [store EXCEPT !.cfg.buckets[name] = IF f = "None" THEN "Default" ELSE f]
  /\ UNCHANGED <<tree, last, written, calls, txn, serial, batch, watch, event,
                 iter, ints, popped, kc, mgr, env,
                 raws, ids, codec>>

\* Config::readonly
ConfigReadonly(readonly) ==
  /\ ~store.made
  /\ store.cfg.readonly # readonly
  /\ store' = [store EXCEPT !.cfg.readonly = readonly]
  /\ UNCHANGED <<tree, last, written, calls, txn, serial, batch, watch, event,
                 iter, ints, popped, kc, mgr, env,
                 raws, ids, codec>>

\* mutant: the whitelist of the configuration becomes the map of the Store
WrapBucketsFromConfig(config) == config.buckets

\* Store::wrap: `buckets: HashMap::new()`
WrapBuckets(config) == NoBuckets

\* Store::new(config), the engine opening the environment
StoreNew ==
  /\ ~store.made
  /\ store' = [store EXCEPT !.made = TRUE, !.buckets = WrapBuckets(store.cfg)]
  /\ UNCHANGED <<tree, last, written, calls, txn, serial, batch, watch, event,
                 iter, ints, popped, kc, mgr, env,
                 raws, ids, codec>>

\* the DatabaseFlags of Flag f, with INTEGER_KEY inserted by int_bucket
DatabaseFlags(f, int) ==
  (IF f = "ReverseKey" THEN {"REVERSE_KEY"}
   ELSE IF f = "IntegerKey" THEN {"INTEGER_KEY"} ELSE {})
  \cup (IF int THEN {"INTEGER_KEY"} ELSE {})

\* Store::bucket(name) and, with int, Store::int_bucket(name)
StoreBucket(name, int) ==
  /\ store.made
  /\ store' = [store EXCEPT
                 !.op = "bucket", !.name = name, !.int = int,
                 !.res = IF store.buckets[name] # "none"
                         THEN OkBucket(DatabaseFlags(store.buckets[name], int))
                         ELSE ErrBucket(ErrorInvalidBucket)]
  /\ UNCHANGED <<tree, last, written, calls, txn, serial, batch, watch, event,
                 iter, ints, popped, kc, mgr, env,
                 raws, ids, codec>>

\* ---------------------------------------------------- Txn and Cursor (LMDB)
MaxOps == 7

\* keys and values of the default bucket of the environment
LmdbKeys == {<<97>>, <<98>>}
LmdbValues == {<<97>>, <<255>>}
EmptyDb == [k \in LmdbKeys |-> None]

\* lmdb::Error::KeyExist, NotFound and any other, converted by `?`
ErrorKeyExist == [kind |-> "LMDB", code |-> 1]
ErrorNotFound == [kind |-> "LMDB", code |-> 2]

\* Result<(), Error> and Result<V, Error>
OkUnit == [ok |-> TRUE, val |-> <<>>, err |-> NoError]
OkValue(v) == [ok |-> TRUE, val |-> v, err |-> NoError]
ErrUnit(e) == [ok |-> FALSE, val |-> <<>>, err |-> e]

\* db is the committed contents; works holds the view of the open Txn and,
\* behind it, of the nested Txn made from it; kind and cur tell whether the
\* Txn and the Cursor are ReadOnly or ReadWrite; begun is db when the Txn
\* began; op, k, v, ro, res describe the call made last, ro telling that
\* its receiver was read-only
NoEnv ==
  [db |-> EmptyDb, works |-> <<>>, kind |-> "none", begun |-> EmptyDb,
   cur |-> "none", pos |-> None, n |-> 0, op |-> "none", k |-> <<>>,
   v |-> <<>>, ro |-> FALSE, res |-> OkUnit]

\* the record of a call
Called(op, k, v, ro, res) ==
  [env EXCEPT !.n = @ + 1, !.op = op, !.k = k, !.v = v, !.ro = ro, !.res = res]

\* the view of the innermost open Txn, and the views with it replaced
WorkOf(e) == e.works[Len(e.works)]
Work == WorkOf(env)
SetWork(w) == [env.works EXCEPT ![Len(env.works)] = w]

\* Store::read_txn
StoreReadTxn ==
  /\ store.made /\ env.kind = "none" /\ env.n < MaxOps
  /\ env' = [Called("read_txn", <<>>, <<>>, FALSE, OkUnit) EXCEPT
               !.kind = "ro", !.works = <<env.db>>, !.begun = env.db]
  /\ UNCHANGED <<tree, last, written, calls, txn, serial, batch, watch, event,
                 iter, ints, popped, kc, mgr, store,
                 raws, ids, codec>>

\* mutant: a store configured readonly hands out write transactions
StoreReadonlyNever(cfg) == FALSE

\* `if self.cfg.readonly` of Store::write_txn
StoreReadonly(cfg) == cfg.readonly

\* Store::write_txn
StoreWriteTxn ==
  /\ store.made /\ env.kind = "none" /\ env.n < MaxOps
  /\ env' = IF StoreReadonly(store.cfg)
            THEN Called("write_txn", <<>>, <<>>, store.cfg.readonly,
                        ErrUnit(ErrorReadOnly))
            ELSE [Called("write_txn", <<>>, <<>>, store.cfg.readonly, OkUnit)
                    EXCEPT !.kind = "rw", !.works = <<env.db>>, !.begun = env.db]
  /\ UNCHANGED <<tree, last, written, calls, txn, serial, batch, watch, event,
                 iter, ints, popped, kc, mgr, store,
                 raws, ids, codec>>

\* mutant: commit drops the changes
CommitDbDiscards(db, work) == db

\* what the environment holds after the outermost Txn commits
CommitDb(db, work) == work

\* Txn::commit: a nested Txn commits into the Txn it was made from
LmdbTxnCommit ==
  /\ env.kind # "none" /\ env.cur = "none" /\ env.n < MaxOps
  /\ env' = IF Len(env.works) > 1
            THEN [Called("commit", <<>>, <<>>, env.kind = "ro", OkUnit) EXCEPT
                    !.works = [i \in 1..(Len(env.works) - 1) |->
                                 IF i = Len(env.works) - 1 THEN Work
                                 ELSE env.works[i]]]
            ELSE [Called("commit", <<>>, <<>>, env.kind = "ro", OkUnit) EXCEPT
                    !.kind = "none", !.works = <<>>,
                    !.db = IF env.kind = "rw" THEN CommitDb(env.db, Work)
                           ELSE env.db]
  /\ UNCHANGED <<tree, last, written, calls, txn, serial, batch, watch, event,
                 iter, ints, popped, kc, mgr, store,
                 raws, ids, codec>>

\* mutant: abort keeps the changes
AbortDbPublishes(db, work) == work

\* what the environment holds after the outermost Txn aborts
AbortDb(db, work) == db

\* Txn::abort
LmdbTxnAbort ==
  /\ env.kind # "none" /\ env.cur = "none" /\ env.n < MaxOps
  /\ env' = IF Len(env.works) > 1
            THEN [Called("abort", <<>>, <<>>, env.kind = "ro", OkUnit) EXCEPT
                    !.works = SubSeq(env.works, 1, Len(env.works) - 1)]
            ELSE [Called("abort", <<>>, <<>>, env.kind = "ro", OkUnit) EXCEPT
                    !.kind = "none", !.works = <<>>,
                    !.db = AbortDb(env.db, Work)]
  /\ UNCHANGED <<tree, last, written, calls, txn, serial, batch, watch, event,
                 iter, ints, popped, kc, mgr, store,
                 raws, ids, codec>>

\* Txn::get: the engine reports a missing key as NotFound
LmdbTxnGet(k) ==
  /\ env.kind # "none" /\ env.cur = "none" /\ env.n < MaxOps
  /\ env' = Called("get", k, <<>>, env.kind = "ro",
                   IF Work[k].some THEN OkValue(Work[k].val)
                   ELSE ErrUnit(ErrorNotFound))
  /\ UNCHANGED <<tree, last, written, calls, txn, serial, batch, watch, event,
                 iter, ints, popped, kc, mgr, store,
                 raws, ids, codec>>

\* mutant: NO_OVERWRITE is ignored
EnginePutOverwrites(w, k, v, noOverwrite) ==
  [ok |-> TRUE, w |-> [w EXCEPT ![k] = Some(v)], err |-> NoError]

\* put of the engine with WriteFlags::empty() or NO_OVERWRITE
EnginePut(w, k, v, noOverwrite) ==
  IF noOverwrite /\ w[k].some THEN [ok |-> FALSE, w |-> w, err |-> ErrorKeyExist]
  ELSE [ok |-> TRUE, w |-> [w EXCEPT ![k] = Some(v)], err |-> NoError]

\* del of the engine
EngineDel(w, k) ==
  IF w[k].some THEN [ok |-> TRUE, w |-> [w EXCEPT ![k] = None], err |-> NoError]
  ELSE [ok |-> FALSE, w |-> w, err |-> ErrorNotFound]

\* clear_db of the engine
EngineClear(w) == [ok |-> TRUE, w |-> EmptyDb, err |-> NoError]

\* mutant: the arm of a read-only handle is never taken
IsReadOnlyNever(kind) == FALSE

\* `Txn::ReadOnly(_) =>` / `Cursor::ReadOnly(_) =>`
IsReadOnly(kind) == kind = "ro"

\* a mutating method of Txn: Err(ReadOnly) on a ReadOnly Txn, else what
\* the engine call r makes of the view
TxnMutate(op, k, v, r) ==
  /\ env.kind # "none" /\ env.cur = "none" /\ env.n < MaxOps
  /\ env' = IF IsReadOnly(env.kind)
            THEN Called(op, k, v, env.kind = "ro", ErrUnit(ErrorReadOnly))
            ELSE [Called(op, k, v, env.kind = "ro",
                         IF r.ok THEN OkUnit ELSE ErrUnit(r.err))
                    EXCEPT !.works = SetWork(r.w)]
  /\ UNCHANGED <<tree, last, written, calls, txn, serial, batch, watch, event,
                 iter, ints, popped, kc, mgr, store,
                 raws, ids, codec>>

\* Txn::set and Txn::set_no_overwrite
LmdbTxnSet(k, v, noOverwrite) ==
  TxnMutate(IF noOverwrite THEN "set_no_overwrite" ELSE "set", k, v,
            EnginePut(Work, k, v, noOverwrite))

\* Txn::del
LmdbTxnDel(k) == TxnMutate("del", k, <<>>, EngineDel(Work, k))

\* Txn::clear_db
LmdbTxnClearDb == TxnMutate("clear_db", <<>>, <<>>, EngineClear(Work))

\* Txn::reserve and Txn::reserve_no_overwrite: the key is given a buffer
\* holding whatever buf the memory holds
LmdbTxnReserve(k, buf, noOverwrite) ==
  TxnMutate(IF noOverwrite THEN "reserve_no_overwrite" ELSE "reserve", k, buf,
            EnginePut(Work, k, buf, noOverwrite))

\* Txn::txn: a nested Txn, which starts from the view of this one
LmdbTxnNested ==
  /\ env.kind # "none" /\ env.cur = "none" /\ env.n < MaxOps
  /\ Len(env.works) < 2
  /\ env' = IF IsReadOnly(env.kind)
            THEN Called("txn", <<>>, <<>>, env.kind = "ro", ErrUnit(ErrorReadOnly))
            ELSE [Called("txn", <<>>, <<>>, env.kind = "ro", OkUnit) EXCEPT
                    !.works = Append(env.works, Work)]
  /\ UNCHANGED <<tree, last, written, calls, txn, serial, batch, watch, event,
                 iter, ints, popped, kc, mgr, store,
                 raws, ids, codec>>

\* Txn::read_cursor
LmdbTxnReadCursor ==
  /\ env.kind # "none" /\ env.cur = "none" /\ env.n < MaxOps
  /\ env' = [Called("read_cursor", <<>>, <<>>, env.kind = "ro", OkUnit) EXCEPT
               !.cur = "ro", !.pos = None]
  /\ UNCHANGED <<tree, last, written, calls, txn, serial, batch, watch, event,
                 iter, ints, popped, kc, mgr, store,
                 raws, ids, codec>>

\* Txn::write_cursor
LmdbTxnWriteCursor ==
  /\ env.kind # "none" /\ env.cur = "none" /\ env.n < MaxOps
  /\ env' = IF IsReadOnly(env.kind)
            THEN Called("write_cursor", <<>>, <<>>, env.kind = "ro",
                        ErrUnit(ErrorReadOnly))
            ELSE [Called("write_cursor", <<>>, <<>>, env.kind = "ro", OkUnit)
                    EXCEPT !.cur = "rw", !.pos = None]
  /\ UNCHANGED <<tree, last, written, calls, txn, serial, batch, watch, event,
                 iter, ints, popped, kc, mgr, store,
                 raws, ids, codec>>

\* Cursor::get(Some(k), CursorOp::Set): the cursor moves to key k
CursorGet(k) ==
  /\ env.cur # "none" /\ env.n < MaxOps
  /\ env' = IF Work[k].some
            THEN [Called("cursor_get", k, <<>>, env.cur = "ro",
                         OkValue(Work[k].val)) EXCEPT !.pos = Some(k)]
            ELSE Called("cursor_get", k, <<>>, env.cur = "ro",
                        ErrUnit(ErrorNotFound))
  /\ UNCHANGED <<tree, last, written, calls, txn, serial, batch, watch, event,
                 iter, ints, popped, kc, mgr, store,
                 raws, ids, codec>>

\* Cursor::set: put through the cursor, which is left at the key
CursorSet(k, v) ==
  LET r == EnginePut(Work, k, v, FALSE)
  IN  /\ env.cur # "none" /\ env.n < MaxOps
      /\ env' = IF IsReadOnly(env.cur)
                THEN Called("cursor_set", k, v, env.cur = "ro",
                            ErrUnit(ErrorReadOnly))
                ELSE [Called("cursor_set", k, v, env.cur = "ro", OkUnit) EXCEPT
                        !.works = SetWork(r.w), !.pos = Some(k)]
      /\ UNCHANGED <<tree, last, written, calls, txn, serial, batch, watch,
                     event, iter, ints, popped, kc, mgr, store,
                 raws, ids, codec>>

\* Cursor::del: the entry at the position of the cursor is deleted; the
\* engine fails when the cursor is at no entry
CursorDel ==
  LET at == env.pos.some /\ Work[env.pos.val].some
  IN  /\ env.cur # "none" /\ env.n < MaxOps
      /\ env' = IF IsReadOnly(env.cur)
                THEN Called("cursor_del", <<>>, <<>>, env.cur = "ro",
                            ErrUnit(ErrorReadOnly))
                ELSE IF at
                THEN [Called("cursor_del", <<>>, <<>>, env.cur = "ro", OkUnit)
                        EXCEPT !.works = SetWork(EngineDel(Work, env.pos.val).w),
                               !.pos = None]
                ELSE Called("cursor_del", <<>>, <<>>, env.cur = "ro",
                            ErrUnit(ErrorLMDB))
      /\ UNCHANGED <<tree, last, written, calls, txn, serial, batch, watch,
                     event, iter, ints, popped, kc, mgr, store,
                 raws, ids, codec>>

\* the Cursor is dropped
CursorDrop ==
  /\ env.cur # "none"
  /\ env' = [env EXCEPT !.cur = "none", !.pos = None]
  /\ UNCHANGED <<tree, last, written, calls, txn, serial, batch, watch, event,
                 iter, ints, popped, kc, mgr, store,
                 raws, ids, codec>>

\* ------------------------------------------------------------ specifications
vars ==
  <<tree, last, written, calls, txn, serial, batch, watch, event, iter, ints,
    popped, kc, mgr, store, env,
                 raws, ids, codec>>

Init ==
  /\ tree \in InitTrees
  /\ last = NoCall
  /\ written = NoWritten
  /\ calls = 0
  /\ txn = [p \in Procs |-> Idle]
  /\ serial = tree
  /\ batch = NoBatch
  /\ watch = NoWatch
  /\ event = NoEvent
  /\ iter = NoIter
  /\ ints = NoInts
  /\ popped = <<>>
  /\ kc = NoKey
  /\ mgr = NoManager
  /\ store = NoStore
  /\ env = NoEnv
  /\ raws = NoRaws
  /\ ids = NoIds
  /\ codec = NoCodec

BucketNext ==
  \/ \E b \in Buckets, k \in Keys : BucketGet(b, k, HandleType(b))
  \/ \E b \in Buckets, k \in Keys :
       \E v \in Values(HandleType(b)) : BucketSet(b, k, HandleType(b), v)
  \/ \E b \in Buckets, k \in Keys : BucketRemove(b, k, HandleType(b))
  \/ \E b \in Buckets, k \in Keys :
       \E old \in OptionValues(HandleType(b)), new \in OptionValues(HandleType(b)) :
         BucketCompareAndSwap(b, k, HandleType(b), old, new)

BucketFaults ==
  \E b \in Buckets, k \in Keys, code \in SledErrors :
    \/ \E op \in {"get", "remove"} :
         BucketCallFails(op, b, k, HandleType(b), None, None, code)
    \/ \E v \in Values(HandleType(b)) :
         BucketCallFails("set", b, k, HandleType(b), Some(v), None, code)
    \/ \E old \in OptionValues(HandleType(b)), new \in OptionValues(HandleType(b)) :
         BucketCallFails("cas", b, k, HandleType(b), old, new, code)

\* a thread with no call in progress makes one, with any of the closures
TxnNext ==
  \/ \E p \in Procs, parts \in Parts :
       txn[p].phase = "idle" /\ \E prog \in Closures(parts) : TxnStart(p, parts, prog)
  \/ \E p \in Procs : TxnStep(p)
  \/ \E p \in Procs : TxnAbort(p)
  \/ \E p \in Procs : TxnCommit(p)
  \/ \E p \in Procs : TxnConflict(p)

\* two threads, each making one transaction call whose closure calls
\* generate_id
IdNext ==
  \/ \E p \in Procs :
       txn[p].phase = "idle" /\ \E prog \in IdClosures : TxnStart(p, <<"A">>, prog)
  \/ \E p \in Procs : TxnStep(p)
  \/ \E p \in Procs : TxnCommit(p)
  \/ \E p \in Procs : TxnConflict(p)
SpecId == Init /\ [][IdNext]_vars

\* reads and writes of one bucket, directly and in transactions, any engine
\* call of which may fail
ErrorBucket == "A"
ErrClosures ==
  {<<GetI(1, k)>> : k \in Keys}
  \cup {<<SetI(1, k, FirstValue(HandleType(ErrorBucket)))>> : k \in Keys}
ErrNext ==
  \/ \E k \in Keys : BucketGet(ErrorBucket, k, HandleType(ErrorBucket))
  \/ \E k \in Keys, code \in SledErrors :
       BucketCallFails("get", ErrorBucket, k, HandleType(ErrorBucket), None, None, code)
  \/ \E p \in Procs :
       txn[p].phase = "idle"
         /\ \E prog \in ErrClosures : TxnStart(p, <<ErrorBucket>>, prog)
  \/ \E p \in Procs : TxnStep(p)
  \/ \E p \in Procs : TxnCommit(p)
  \/ \E p \in Procs : TxnConflict(p)
  \/ \E p \in Procs, code \in SledErrors : TxnStorageFails(p, code)
SpecErr == Init /\ [][ErrNext]_vars

\* writes of codec values, some of which cannot be serialized, to one bucket
EncBucket == "A"
EncKeys == {AllKeys[1], AllKeys[2]}
EncCodec == "Json"
EncNext ==
  \/ \E k \in EncKeys, x \in EncInts, bad \in BOOLEAN :
       EncBucketSet(EncBucket, k, EncCodec, x, bad)
  \/ \E k \in EncKeys, old \in {None, Some(<<1>>)}, new \in {None, Some(<<200>>)} :
       \E oldbad \in BOOLEAN, newbad \in BOOLEAN :
         EncBucketCompareAndSwap(EncBucket, k, EncCodec, old, oldbad, new, newbad)
  \/ BatchNew(EncCodec)
  \/ \E k \in EncKeys, bad \in BOOLEAN : EncBatchSet(k, 1, bad)
  \/ EncBucketBatch(EncBucket)
SpecEnc == Init /\ [][EncNext]_vars

\* values are written and read through the codecs
CodecNext ==
  \/ \E C \in Codecs, T \in InnerTypes : \E x \in InnerValues(T) : CodecSet(C, T, x)
  \/ \E C \in Codecs : CodecGet(C)
SpecCodec == Init /\ [][CodecNext]_vars

\* two threads, each making one transaction call over a bucket that is also
\* written directly; the thread of a call runs its closure, and the commit
\* or retry that follows, whenever it can
LiveKeys == {AllKeys[1], AllKeys[2]}
LiveClosures ==
  {<<GetI(1, k), BumpI(1, k)>> : k \in LiveKeys}
  \cup {<<GetI(1, AllKeys[1]), AbortI(ErrorMessage(1))>>}
LiveNext ==
  \/ \E p \in Procs :
       txn[p].phase = "idle" /\ \E prog \in LiveClosures : TxnStart(p, <<"A">>, prog)
  \/ \E p \in Procs : TxnStep(p)
  \/ \E p \in Procs : TxnAbort(p)
  \/ \E p \in Procs : TxnCommit(p)
  \/ \E p \in Procs : TxnConflict(p)
  \/ \E k \in LiveKeys : BucketSet("A", k, HandleType("A"), <<97>>)
TxnRuns(p) == TxnStep(p) \/ TxnAbort(p) \/ TxnCommit(p) \/ TxnConflict(p)
SpecLive ==
  Init /\ [][LiveNext]_vars /\ \A p \in Procs : WF_vars(TxnRuns(p))

TxnFaults == \E p \in Procs, code \in SledErrors : TxnStorageFails(p, code)

\* the bucket a Batch is built for and applied to, with a reader beside it
BatchBucket == "A"
\* the value the batch sets: one that its encoding changes
BatchValues(V) == {v \in Values(V) : V = "Raw" \/ ToRawValue(V, v) # v}
BatchNext ==
  \/ BatchNew(HandleType(BatchBucket))
  \/ \E k \in Keys : \E v \in BatchValues(batch.V) : BatchSet(k, v)
  \/ \E k \in Keys : BatchRemove(k)
  \/ BucketBatch(BatchBucket)
  \/ \E k \in Keys : BucketGet(BatchBucket, k, HandleType(BatchBucket))

\* the buckets written while a Watch is open on one of them
WatchBuckets == {"A", "B"}
Prefixes == {None} \cup {Some(k) : k \in Keys}
WatchSteps ==
  \/ \E b \in WatchBuckets, prefix \in Prefixes : WatchPrefix(b, prefix)
  \/ \E b \in WatchBuckets, k \in Keys :
       \E v \in Values(HandleType(b)) : BucketSet(b, k, HandleType(b), v)
  \/ \E b \in WatchBuckets, k \in Keys : BucketRemove(b, k, HandleType(b))
  \/ WatchNext

\* Bucket calls on a working engine
Spec == Init /\ [][BucketNext]_vars
\* Bucket calls, any of which the engine may fail
SpecFault == Init /\ [][BucketNext \/ BucketFaults]_vars
\* two threads, each making one transaction call
SpecTxn == Init /\ [][TxnNext]_vars
SpecTxnFault == Init /\ [][TxnNext \/ TxnFaults]_vars
\* the bucket that is written and iterated, and the sources of an Iter
IterBucket == "A"
IterNext ==
  \/ \E k \in Keys : \E v \in Values(HandleType(IterBucket)) :
       ints.I = "none" /\ BucketSet(IterBucket, k, HandleType(IterBucket), v)
  \/ \E k \in Keys :
       ints.I = "none" /\ BucketRemove(IterBucket, k, HandleType(IterBucket))
  \/ \E I \in IntegerTypes, target \in Targets, i \in 0..(MaxCalls - 1) :
       last.op = "none" /\ IntSet(I, target, i)
  \/ \E src \in {IterBucket, "ints"} : BucketIter(src)
  \/ \E a \in Keys, b \in Keys : BucketIterRange(IterBucket, a, b)
  \/ IterStep

\* a bucket of raw entries is written, iterated, and its items decoded
ItemNext ==
  \/ \E k \in RawKeys, v \in RawValues : RawSet(k, v)
  \/ BucketIter("raws")
  \/ IterStep
  \/ \E i \in 1..Cardinality(RawKeys), K \in ItemKeyTypes : ItemKey(i, K, "String")
  \/ \E i \in 1..Cardinality(RawKeys), V \in ValueTypes : ItemValue(i, "Str", V)
SpecItem == Init /\ [][ItemNext]_vars

\* a bucket is written and an Iter over it consumed from both ends
BackNext ==
  \/ \E k \in RawKeys, v \in RawValues : RawSet(k, v)
  \/ BucketIter("raws")
  \/ IterStep
  \/ IterStepBack
SpecBack == Init /\ [][BackNext]_vars

\* the buckets entries are popped from
PopBuckets == {"A", "B"}
PopNext ==
  \/ \E b \in PopBuckets, k \in Keys :
       \E v \in Values(HandleType(b)) : BucketSet(b, k, HandleType(b), v)
  \/ \E b \in PopBuckets, op \in {"pop_front", "pop_back"} : BucketPop(op, b)

KeyNext ==
  \/ \E K \in KeyTypes : \E x \in KeyValues(K) : KeyRoundTrip(K, x)
  \/ \E I \in IntegerTypes, target \in Targets :
       \E a \in KeyInts, b \in KeyInts : IntegerKeys(I, target, a, b)
  \/ \E K \in KeyTypes, r \in StoredKeys : KeyDecode(K, r)
  \/ \E T \in NarrowTypes, target \in Targets :
       \E x \in NarrowInts(T) : IntegerNarrow(T, target, x)

ManagerNext ==
  \/ \E path \in Paths : CreateDir(path)
  \/ \E path \in Paths : ManagerGet(path)
  \/ \E path \in Paths, opened \in BOOLEAN : ManagerGetOrCreate(path, opened)
  \/ \E path \in Paths, name \in AppFileNames : WriteFile(path, name)
  \/ \E path \in Paths, opened \in BOOLEAN : StoreNewAt(path, opened)

LmdbNext ==
  \/ \E readonly \in BOOLEAN : ConfigReadonly(readonly)
  \/ StoreNew
  \/ StoreReadTxn
  \/ StoreWriteTxn
  \/ LmdbTxnCommit
  \/ LmdbTxnAbort
  \/ \E k \in LmdbKeys : LmdbTxnGet(k)
  \/ \E k \in LmdbKeys, v \in LmdbValues, noOverwrite \in BOOLEAN :
       LmdbTxnSet(k, v, noOverwrite)
  \/ \E k \in LmdbKeys : LmdbTxnDel(k)
  \/ LmdbTxnClearDb
  \/ \E k \in LmdbKeys, buf \in LmdbValues, noOverwrite \in BOOLEAN :
       LmdbTxnReserve(k, buf, noOverwrite)
  \/ LmdbTxnNested
  \/ LmdbTxnReadCursor
  \/ LmdbTxnWriteCursor
  \/ \E k \in LmdbKeys : CursorGet(k)
  \/ \E k \in LmdbKeys, v \in LmdbValues : CursorSet(k, v)
  \/ CursorDel
  \/ CursorDrop

\* transactions and cursors on the default bucket of a Store
SpecLmdb == Init /\ [][LmdbNext]_vars
StoreNext ==
  \/ \E name \in Names, f \in Flags \cup {"None"} : ConfigBucket(name, f)
  \/ \E readonly \in BOOLEAN : ConfigReadonly(readonly)
  \/ StoreNew
  \/ \E name \in Names, int \in BOOLEAN : StoreBucket(name, int)

\* a Config is built with its setters
ConfigNext ==
  \/ \E f \in FlagArgs : ConfigFlag(f)
  \/ \E name \in Names, f \in Flags \cup {"None"} : ConfigBucket(name, f)
  \/ \E readonly \in BOOLEAN : ConfigReadonly(readonly)
SpecConfig == Init /\ [][ConfigNext]_vars

\* a Config is built, a Store made from it and buckets opened by name
SpecStore == Init /\ [][StoreNext]_vars
\* stores are looked up and opened through one Manager
SpecManager == Init /\ [][ManagerNext]_vars
\* one key conversion
SpecKey == Init /\ [][KeyNext]_vars
\* a bucket is written and iterated, whole or over a range
SpecIter == Init /\ [][IterNext]_vars
\* threads insert entries and pop the first or the last
SpecPop == Init /\ [][PopNext]_vars
\* a Batch built and applied while another thread reads the bucket
SpecBatch == Init /\ [][BatchNext]_vars
\* writes before and after a Watch is opened, and the events it delivers
SpecWatch == Init /\ [][WatchSteps]_vars

\* ------------------------------------------------------- properties: Bucket
\* the bytes stored under the key of the most recent call, before the call
LastOld == last.pre[last.b][last.k]

C7_GetErrOnlyUndecodable ==
  last.op = "get" =>
    /\ (~LastOld.some => last.res = Ok(None))
    /\ (~last.res.ok => LastOld.some /\ ~FromRawValue(last.V, LastOld.val).ok)

\* C7 amended: get of an absent key returns Ok(None) unless the engine call
\* fails; get returns Err only when the stored bytes cannot be decoded as the
\* value type or the engine reports a storage error (Error::Sled)
C7_GetErrUndecodableOrEngine ==
  last.op = "get" =>
    /\ (~LastOld.some => last.res = Ok(None) \/ last.res.err.kind = "Sled")
    /\ (~last.res.ok =>
          \/ last.res.err.kind = "Sled"
          \/ /\ LastOld.some
             /\ ~FromRawValue(last.V, LastOld.val).ok
             /\ last.res.err.kind = "FromUtf8")

C7_Witness ==
  /\ last.op = "get"
  /\ ~LastOld.some
  /\ last.res = Ok(None)
  /\ last.pre # EmptyTree

Touched(ops, k) == \E i \in 1..Len(ops) : ops[i].k = k
LastOp(ops, k) ==
  ops[CHOOSE i \in 1..Len(ops) :
        ops[i].k = k /\ \A j \in (i + 1)..Len(ops) : ops[j].k # k]

\* C12: Bucket::batch makes all recorded sets and removes visible in one
\* step: every key the batch writes holds what the batch's last write to it
\* stored, every other key is unchanged, and no step applies a part of it
C12_BatchAppliedStep ==
  tree' # tree =>
    /\ last'.op = "batch"
    /\ \A k \in Keys :
         tree'[last'.b][k] =
           IF Touched(batch.ops, k) THEN LastOp(batch.ops, k).o
           ELSE tree[last'.b][k]
C12_BatchAllOrNothing ==
  /\ [](last.op = "batch" =>
          /\ last.res = Ok(None)
          /\ \A b \in Buckets, k \in Keys :
               tree[b][k] =
                 IF b = last.b /\ Touched(last.arg, k)
                 THEN LastOp(last.arg, k).o
                 ELSE last.pre[b][k])
  /\ [][C12_BatchAppliedStep]_vars

\* a batch of three sets and one remove was applied and changed two keys
C12_Witness ==
  /\ last.op = "batch"
  /\ Len(last.arg) = 4
  /\ Cardinality({i \in 1..4 : last.arg[i].o.some}) = 3
  /\ Cardinality({k \in Keys : tree[last.b][k] # last.pre[last.b][k]}) >= 2

\* ------------------------------------------------------- properties: Key
\* byte-lexicographic comparison of two raw keys, as Rust compares [u8]
BytesLess(x, y) ==
  \/ Len(x) < Len(y) /\ \A i \in 1..Len(x) : x[i] = y[i]
  \/ \E i \in 1..Len(x) :
       /\ i <= Len(y)
       /\ x[i] < y[i]
       /\ \A j \in 1..(i - 1) : x[j] = y[j]

C20_KeyRoundTrip ==
  /\ (kc.op = "key" => kc.back = Ok(kc.x))
  /\ (kc.op = "integer" => kc.aback = kc.a /\ Len(kc.ra) = IntegerWidth(kc.I))

\* a two-byte integer through the 128-bit Integer on a little-endian target
C20_Witness ==
  /\ kc.op = "integer"
  /\ kc.I = "u128"
  /\ kc.target = "little"
  /\ kc.a = 257
  /\ kc.aback = 257
  /\ kc.ra[15] = 1

\* C21 as stated: the Integer key of an integer of a narrower type is the
\* integer widened by unsigned promotion: the bytes added in front of the
\* big-endian encoding are zero, for every type and every input
C21_UnsignedPromotion ==
  kc.op = "narrow" =>
    /\ Len(kc.ra) = 16
    /\ \A i \in 1..(16 - NarrowWidth(kc.T)) : kc.ra[i] = 0

\* C21, what the code does: unsigned types and non-negative i32 are zero-padded, a
\* negative i32 is sign-extended: the bytes added in front are all 255
C21_SignExtendsNegative ==
  kc.op = "narrow" =>
    /\ Len(kc.ra) = 16
    /\ \A i \in 1..(16 - NarrowWidth(kc.T)) :
         kc.ra[i] = IF kc.T = "i32" /\ kc.a < 0 THEN 255 ELSE 0
    /\ \A i \in 13..16 : kc.ra[i] = (kc.a \div Pow256(16 - i)) % 256

\* the key of -1i32 on a little-endian target: sixteen bytes 255
C21_Witness ==
  /\ kc.op = "narrow"
  /\ kc.T = "i32"
  /\ kc.a = -1
  /\ kc.target = "little"
  /\ kc.ra = [i \in 1..16 |-> 255]

\* the raw key r is a valid encoding of a key of type K
WellFormedKey(K, r) ==
  IF K \in {"Str", "String"} THEN Utf8Valid(r, 1)
  ELSE IF K = "Integer" THEN Len(r) = 16
  ELSE TRUE

\* C22 as stated: decoding stored key bytes returns an error value exactly
\* when they are not a valid encoding of the key type, and never panics
C22_DecodeErrNoPanic ==
  kc.op = "decode" =>
    /\ kc.back # Panicked
    /\ (kc.back.ok <=> WellFormedKey(kc.K, kc.raw))

\* C22, what the code does: a str or String key returns Err(Utf8) exactly
\* for bytes that are not UTF-8; an Integer key panics on fewer than 16
\* bytes and takes the first 16 of more without an error; the byte key
\* types accept everything
C22_DecodeOutcome ==
  kc.op = "decode" =>
    IF kc.K \in {"Str", "String"}
    THEN /\ kc.back # Panicked
         /\ (kc.back.ok <=> Utf8Valid(kc.raw, 1))
         /\ (~kc.back.ok => kc.back.err.kind = "Utf8")
    ELSE IF kc.K = "Integer"
    THEN /\ (Len(kc.raw) < 16 <=> kc.back = Panicked)
         /\ (Len(kc.raw) >= 16 => kc.back = Ok(SubSeq(kc.raw, 1, 16)))
    ELSE kc.back = Ok(kc.raw)

\* a three-byte raw key decoded as an Integer: the thread panics
C22_Witness ==
  /\ kc.op = "decode"
  /\ kc.K = "Integer"
  /\ kc.raw = <<0, 0, 1>>
  /\ kc.back = Panicked

\* --------------------------------------------------- properties: Manager
\* the canonical path a registry key stands for
CanonOfKey(key) == IF key \in CanonPaths THEN key ELSE Canon(key)

\* the step is a get_or_create call
GetOrCreateCall == mgr'.n = mgr.n + 1 /\ mgr'.op = "get_or_create"

\* C23: the registry holds at most one handle per canonical path, every
\* handle a get or get_or_create returns for a path is the Arc registered
\* for its canonical path, all handles returned for one canonical path are
\* the same Arc, and the environment of a path is opened at most once
C23_OneHandlePerPath ==
  /\ \A k1 \in KeyPaths, k2 \in KeyPaths :
       mgr.stores[k1] # 0 /\ mgr.stores[k2] # 0
         /\ CanonOfKey(k1) = CanonOfKey(k2) => k1 = k2
  /\ \A c \in CanonPaths :
       /\ Cardinality(mgr.got[c]) <= 1
       /\ mgr.opens[c] <= 1
       /\ mgr.got[c] \subseteq {mgr.stores[c]}
  /\ (mgr.op \in {"get", "get_or_create"} /\ mgr.res.ok /\ mgr.res.val # 0
        => mgr.res.val = mgr.stores[Canon(mgr.path)])

\* a store created under one spelling of its path is returned under another
C23_Witness ==
  /\ mgr.op = "get"
  /\ mgr.path = "./db"
  /\ mgr.res = Ok(2)
  /\ mgr.got["/db"] = {2}
  /\ mgr.got["/other"] = {1}
  /\ mgr.stores["/db"] = 2

\* C24 as stated: a get_or_create of a path whose directory does not exist
\* succeeds unless the engine fails: the directory exists afterwards and a
\* new handle is registered
C24_FirstOpenCreatesDir ==
  [][GetOrCreateCall /\ Canon(mgr'.path) \notin mgr.dirs
       => \/ mgr'.res.err = ErrorLMDB
          \/ /\ mgr'.res.ok
             /\ Canon(mgr'.path) \in mgr'.dirs
             /\ mgr'.stores[Canon(mgr'.path)] = mgr'.res.val
             /\ mgr'.arcs = mgr.arcs + 1]_vars

\* C24, what the code does: get_or_create of a path whose directory does not
\* exist returns Err(IO) from canonicalize and creates and registers
\* nothing; the first open of an existing directory opens the environment
\* and registers a new handle, or removes the directory when the engine
\* fails; a later open returns the registered handle and opens nothing
C24_OpenOutcome ==
  [][GetOrCreateCall =>
       LET c == Canon(mgr'.path)
       IN  IF c \notin mgr.dirs
           THEN /\ mgr'.res = Failed(ErrorIO)
                /\ mgr'.dirs = mgr.dirs /\ mgr'.stores = mgr.stores
                /\ mgr'.arcs = mgr.arcs /\ mgr'.opens = mgr.opens
           ELSE IF mgr.stores[c] # 0
           THEN /\ mgr'.res = Ok(mgr.stores[c])
                /\ mgr'.found
                /\ mgr'.stores = mgr.stores
                /\ mgr'.arcs = mgr.arcs /\ mgr'.opens = mgr.opens
           ELSE \/ /\ mgr'.res = Ok(mgr.arcs + 1)
                   /\ mgr'.stores = [mgr.stores EXCEPT ![c] = mgr.arcs + 1]
                   /\ mgr'.opens[c] = 1
                   /\ c \in mgr'.dirs
                \/ /\ mgr'.res = Failed(ErrorLMDB)
                   /\ mgr'.stores = mgr.stores
                   /\ c \notin mgr'.dirs]_vars

\* the first get_or_create, made before the directory exists, has failed
C24_Witness ==
  /\ mgr.op = "get_or_create"
  /\ mgr.n = 1
  /\ mgr.dirs = {}
  /\ mgr.res = Failed(ErrorIO)
  /\ mgr.arcs = 0

\* ----------------------------------------------------- properties: Store
\* C25 as stated: on a Store built from a configuration, bucket(name) and
\* int_bucket(name) open a name registered with Config::bucket and fail
\* with InvalidBucket for a name that was not registered
C25_WhitelistedOpens ==
  store.op = "bucket" =>
    IF store.cfg.buckets[store.name] # "none"
    THEN store.res.ok
    ELSE store.res = ErrBucket(ErrorInvalidBucket)

\* C25, what the code does: the map bucket(name) and int_bucket(name)
\* consult is the one Store::wrap creates empty, which nothing fills: every
\* name fails with InvalidBucket, registered in the configuration or not
C25_EveryNameInvalid ==
  /\ store.buckets = NoBuckets
  /\ (store.op = "bucket" => store.res = ErrBucket(ErrorInvalidBucket))

\* bucket("test") on a Store whose configuration registered "test"
C25_Witness ==
  /\ store.op = "bucket"
  /\ store.name = "test"
  /\ ~store.int
  /\ store.cfg.buckets["test"] = "Default"
  /\ store.res = ErrBucket(ErrorInvalidBucket)

\* ---------------------------------------------- properties: Txn and Cursor
\* the step is a call on the Store, the Txn or the Cursor
LmdbCall == env'.n = env.n + 1
\* the calls that write, or hand out something that writes
Mutating ==
  {"write_txn", "set", "set_no_overwrite", "del", "clear_db", "reserve",
   "reserve_no_overwrite", "write_cursor", "txn", "cursor_set", "cursor_del"}

\* C26: write_txn on a Store configured readonly, and every mutating call on
\* a ReadOnly Txn or a ReadOnly Cursor, returns Err(ReadOnly) and leaves the
\* database, the view of the Txn, the Txn and the Cursor as they were; a
\* readonly Store never has a ReadWrite Txn
C26_ReadOnlyStep ==
  LmdbCall /\ env'.op \in Mutating /\ env'.ro
    => /\ env'.res = ErrUnit(ErrorReadOnly)
       /\ env'.db = env.db
       /\ env'.works = env.works
       /\ env'.kind = env.kind
       /\ env'.cur = env.cur
C26_ReadOnlyState ==
  /\ (store.cfg.readonly => env.kind # "rw")
  /\ (env.kind = "ro" => env.works = <<env.begun>> /\ env.cur # "rw")
C26_ReadOnlyRejects == []C26_ReadOnlyState /\ [][C26_ReadOnlyStep]_vars

\* del of a stored key on a ReadOnly Txn
C26_Witness ==
  /\ env.op = "del"
  /\ env.ro
  /\ env.kind = "ro"
  /\ env.db[env.k].some
  /\ env.res = ErrUnit(ErrorReadOnly)

\* C27: a set or del that returns Ok on a ReadWrite Txn changes the view of
\* that Txn; commit of the Txn makes its view the contents of the database
\* and abort leaves the contents as they were when the Txn began; until
\* then the contents do not change; a Txn started later sees the contents
C27_CommitAbortStep ==
  /\ (LmdbCall /\ env'.op = "set" /\ env'.res.ok
        => WorkOf(env')[env'.k] = Some(env'.v))
  /\ (LmdbCall /\ env'.op = "del" /\ env'.res.ok
        => WorkOf(env')[env'.k] = None)
  /\ (LmdbCall /\ env'.op = "commit" /\ env.kind = "rw" /\ Len(env.works) = 1
        => env'.db = Work /\ env'.kind = "none")
  /\ (LmdbCall /\ env'.op = "abort" /\ env.kind = "rw" /\ Len(env.works) = 1
        => env'.db = env.begun /\ env'.kind = "none")
  /\ (LmdbCall /\ env'.op \in {"read_txn", "write_txn"} /\ env'.res.ok
        => env'.works = <<env.db>>)
  /\ (env'.kind # "none" => env'.db = env.db)
C27_CommitAbort ==
  [](env.kind # "none" => env.db = env.begun) /\ [][C27_CommitAbortStep]_vars

\* a value set by a committed Txn is read by a Txn started after it
C27_Witness ==
  /\ env.op = "get"
  /\ env.kind = "ro"
  /\ env.k = <<98>>
  /\ env.begun[<<98>>] = Some(<<255>>)
  /\ env.res = OkValue(<<255>>)

\* C28: set_no_overwrite on a ReadWrite Txn stores the value and returns Ok
\* when the key is absent, and returns an error and leaves the view of the
\* Txn unchanged when the key is present
C28_NoOverwrite ==
  [][LmdbCall /\ env'.op = "set_no_overwrite" /\ ~env'.ro
       => IF Work[env'.k].some
          THEN /\ ~env'.res.ok
               /\ env'.res.err = ErrorKeyExist
               /\ env'.works = env.works
          ELSE /\ env'.res = OkUnit
               /\ WorkOf(env') = [Work EXCEPT ![env'.k] = Some(env'.v)]]_vars

\* a second set_no_overwrite of a key, with another value, has failed
C28_Witness ==
  /\ env.op = "set_no_overwrite"
  /\ env.kind = "rw"
  /\ env.v = <<255>>
  /\ Work[env.k] = Some(<<97>>)
  /\ env.begun[env.k] = None
  /\ env.res = ErrUnit(ErrorKeyExist)

\* ------------------------------------------------- properties: iteration
\* the keys of the items yielded so far, and whether they ascend bytewise
OutKeys == {iter.out[i].key : i \in 1..Len(iter.out)}
OutAscends ==
  \A i \in 1..Len(iter.out), j \in 1..Len(iter.out) :
    i < j => BytesLess(iter.out[i].key, iter.out[j].key)
\* every item yielded holds the value the bucket stores under its key
OutValues ==
  \A i \in 1..Len(iter.out) :
    tree[iter.src][iter.out[i].key] = Some(iter.out[i].value)
\* the iterator is exhausted and no Bucket call was made since its creation
Drained == iter.open /\ iter.done /\ calls = iter.since

\* C16: Bucket::iter yields the entries in strictly ascending key order, and
\* when it is drained with no write in between it has yielded every entry
\* of the bucket once, with its value; over Integer keys 0..n-1 the i-th
\* item (from 0) has key i and the value stored for i, for the sled bucket
\* and for the cursor of the LMDB bucket
C16_IterAscendingAll ==
  iter.open /\ ~iter.a.some =>
    /\ (iter.src # "ints" =>
          /\ OutAscends
          /\ (Drained =>
                /\ OutKeys = {k \in Keys : tree[iter.src][k].some}
                /\ OutValues))
    /\ (iter.src = "ints" /\ Drained
         /\ ints.keys = 0..(Cardinality(ints.keys) - 1) =>
          /\ Len(iter.out) = Cardinality(ints.keys)
          /\ \A i \in 1..Len(iter.out) :
               /\ IntegerInto(ints.I, ints.target,
                              IntegerFromSlice(ints.I, iter.out[i].key)) = i - 1
               /\ FromRawValue("String", iter.out[i].value)
                    = Ok(Some(Format(i - 1))))

\* Integer keys 1 and 0 were inserted, in this order, and iterated
C16_Witness ==
  /\ Drained
  /\ iter.src = "ints"
  /\ ints.I = "u128"
  /\ ints.target = "little"
  /\ ints.keys = {0, 1}
  /\ Len(iter.out) = 2
  /\ iter.out[2].value = <<49>>

\* C17: Bucket::iter_range(a, b) yields entries in ascending order whose raw
\* key k satisfies raw(a) <= k < raw(b), never the one at b; drained with no
\* write in between it has yielded all such entries, and none when a >= b
C17_IterRangeHalfOpen ==
  iter.open /\ iter.a.some =>
    /\ OutAscends
    /\ \A k \in OutKeys :
         ~BytesLess(k, iter.a.val) /\ BytesLess(k, iter.b.val)
    /\ (~BytesLess(iter.a.val, iter.b.val) => iter.out = <<>>)
    /\ (Drained =>
          /\ OutKeys = {k \in Keys :
                          /\ tree[iter.src][k].some
                          /\ ~BytesLess(k, iter.a.val)
                          /\ BytesLess(k, iter.b.val)}
          /\ OutValues)

\* both keys are present; the range from the first to the second yields
\* the first only
C17_Witness ==
  /\ Drained
  /\ iter.a = Some(AllKeys[1])
  /\ iter.b = Some(AllKeys[2])
  /\ tree[iter.src][AllKeys[1]].some
  /\ tree[iter.src][AllKeys[2]].some
  /\ Len(iter.out) = 1
  /\ iter.out[1].key = AllKeys[1]

\* two results are both Ok with the same value or both Err with the same error
SameResult(a, b) ==
  /\ a.ok = b.ok
  /\ IF a.ok THEN a.val = b.val ELSE a.err = b.err

\* C29: the Iter yields every stored entry as an item holding the stored
\* bytes, decodable or not, in key order and to the last entry; the result of
\* Item::key is that of decoding the key bytes alone and the result of
\* Item::value that of decoding the value bytes alone, and neither call
\* changes the other's result or what the Iter yields
C29_ItemsUndecoded ==
  /\ (iter.open /\ iter.src = "raws" /\ calls = iter.since
        => /\ \A i \in 1..Len(iter.out) :
                \E k \in RawKeys :
                  iter.out[i].key = k /\ raws[k] = Some(iter.out[i].value)
           /\ OutAscends
           /\ (iter.done => OutKeys = {k \in RawKeys : raws[k].some}))
  /\ (iter.keyed.i > 0
        => SameResult(iter.keyed.res,
                      FromRawKey(iter.keyed.T, iter.out[iter.keyed.i].key)))
  /\ (iter.valued.i > 0
        => SameResult(iter.valued.res,
                      FromRawValue(iter.valued.T, iter.out[iter.valued.i].value)))
C29_ItemCallStep ==
  /\ (iter'.keyed # iter.keyed
        => /\ iter'.valued = iter.valued
           /\ iter'.out = iter.out /\ iter'.pos = iter.pos
           /\ iter'.done = iter.done)
  /\ (iter'.valued # iter.valued
        => /\ iter'.keyed = iter.keyed
           /\ iter'.out = iter.out /\ iter'.pos = iter.pos
           /\ iter'.done = iter.done)
RoutKeys == {iter.rout[i].key : i \in 1..Len(iter.rout)}

\* C33: while the bucket is not written, next() yields stored entries in
\* ascending and next_back() in descending key order, every key next()
\* yielded is below every key next_back() yielded, and when either has
\* returned None the two together have yielded every entry, each once; from
\* then on neither yields anything
C33_BothEndsState ==
  iter.open /\ iter.src = "raws" /\ calls = iter.since
    => /\ \A i \in 1..Len(iter.out) :
            raws[iter.out[i].key] = Some(iter.out[i].value)
       /\ \A i \in 1..Len(iter.rout) :
            raws[iter.rout[i].key] = Some(iter.rout[i].value)
       /\ OutAscends
       /\ \A i \in 1..Len(iter.rout), j \in 1..Len(iter.rout) :
            i < j => BytesLess(iter.rout[j].key, iter.rout[i].key)
       /\ \A i \in 1..Len(iter.out), j \in 1..Len(iter.rout) :
            BytesLess(iter.out[i].key, iter.rout[j].key)
       /\ (iter.done \/ iter.doneb
             => /\ OutKeys \cup RoutKeys = {k \in RawKeys : raws[k].some}
                /\ Len(iter.out) + Len(iter.rout)
                     = Cardinality({k \in RawKeys : raws[k].some}))
C33_BothEndsStep ==
  iter.open /\ iter'.open /\ calls' = iter.since /\ (iter.done \/ iter.doneb)
    => iter'.out = iter.out /\ iter'.rout = iter.rout
C33_BothEndsOnce == []C33_BothEndsState /\ [][C33_BothEndsStep]_vars

\* three entries: next(), next_back(), next() yielded them, then both
\* returned None
C33_Witness ==
  /\ iter.src = "raws"
  /\ calls = iter.since
  /\ Len(iter.out) = 2
  /\ Len(iter.rout) = 1
  /\ iter.out[1].key = <<97>>
  /\ iter.out[2].key = <<128>>
  /\ iter.rout[1].key = <<195, 169>>
  /\ iter.done
  /\ iter.doneb

\* ------------------------------------------------------- properties: pop
\* C18: pop_front / pop_back return None on an empty bucket and otherwise
\* the entry with the smallest / largest key; after the call that key is
\* absent and every other entry is as before; no two pop calls return the
\* same entry
C18_PopExtremal ==
  /\ (last.op \in {"pop_front", "pop_back"} =>
        LET had == {k \in Keys : last.pre[last.b][k].some}
        IN  IF had = {}
            THEN last.res = Ok(None) /\ tree = last.pre
            ELSE /\ last.k \in had
                 /\ \A j \in had \ {last.k} :
                      IF last.op = "pop_front" THEN BytesLess(last.k, j)
                      ELSE BytesLess(j, last.k)
                 /\ last.res = Ok(Some([key |-> last.k,
                                        value |-> last.pre[last.b][last.k].val]))
                 /\ tree = [last.pre EXCEPT ![last.b][last.k] = None])
  /\ \A i \in 1..Len(popped), j \in 1..Len(popped) :
       i < j => <<popped[i].b, popped[i].key>> # <<popped[j].b, popped[j].key>>

\* two pops of a bucket with two entries: first the smallest, then the other
C18_Witness ==
  /\ Len(popped) = 2
  /\ popped[1].b = popped[2].b
  /\ last.op = "pop_front"
  /\ last.again = FALSE
  /\ last.k = AllKeys[2]
  /\ tree[last.b] = EmptyTree[last.b]

\* ----------------------------------------------------- properties: Watch
\* the raw key k starts with the raw bytes p
StartsWith(k, p) == Len(p) <= Len(k) /\ \A i \in 1..Len(p) : k[i] = p[i]

\* the step is a set or remove call that returns Ok
WriteCall == calls' = calls + 1 /\ last'.op \in {"set", "remove"} /\ last'.res.ok

\* the sled event a set(k, v) or remove(k) call is expected to produce
Produced(c, at) ==
  IF c.op = "set"
  THEN [kind |-> "Insert", key |-> c.k, value |-> ToRawValue(c.V, c.arg.val),
        at |-> at]
  ELSE [kind |-> "Remove", key |-> c.k, value |-> <<>>, at |-> at]

\* C13: a successful set or remove of a key matching the prefix of an open
\* Watch adds exactly one event, behind those not yet delivered; the Watch
\* delivers events oldest first; a delivered event of the latest call is
\* Set with key k and value v for set(k, v), Remove with key k and no value
\* for remove(k)
C13_OneEventStep ==
  /\ (WriteCall /\ watch.open /\ last'.b = watch.b
        /\ StartsWith(last'.k, watch.prefix)
      => watch'.queue = Append(watch.queue, Produced(last', calls')))
  /\ (event' # event =>
        /\ watch.queue # <<>>
        /\ event'.at = watch.queue[1].at
        /\ watch'.queue = Tail(watch.queue))
C13_EventInOrder ==
  /\ \A i \in 1..Len(watch.queue) :
       /\ event.at < watch.queue[i].at
       /\ \A j \in 1..(i - 1) : watch.queue[j].at < watch.queue[i].at
  /\ (event.at = calls /\ calls > 0 /\ last.res.ok =>
        /\ last.op = "set" =>
              /\ event.tag = "Set"
              /\ event.key = Ok(last.k)
              /\ event.value = Ok(last.arg)
        /\ last.op = "remove" =>
              /\ event.tag = "Remove"
              /\ event.key = Ok(last.k)
              /\ event.value = Ok(None))
C13_WatchDeliversWrites == []C13_EventInOrder /\ [][C13_OneEventStep]_vars

\* subscribe, set, remove: the Set was delivered, then the Remove
C13_Witness ==
  /\ watch.open
  /\ watch.since = 0
  /\ watch.queue = <<>>
  /\ last.op = "remove"
  /\ calls = 2
  /\ event.tag = "Remove"
  /\ event.at = calls

\* C14: the events of a Watch all stem from writes made after watch_prefix
\* created it: it starts with no event, and no event it holds or delivers
\* belongs to a call made before
C14_NoReplayStep == ~watch.open /\ watch'.open => watch'.queue = <<>>
C14_NoReplayState ==
  watch.open =>
    /\ \A i \in 1..Len(watch.queue) : watch.queue[i].at > watch.since
    /\ (event.tag # "none" => event.at > watch.since)
C14_NoReplay == []C14_NoReplayState /\ [][C14_NoReplayStep]_vars

\* a Watch opened on a bucket that was written before, delivering a later write
C14_Witness ==
  /\ watch.open
  /\ watch.since = 1
  /\ last.pre[watch.b] # EmptyTree[watch.b]
  /\ event.at = 2

\* C15: a Watch made with Some(p) holds and delivers only events whose key
\* starts with the raw bytes of p, and a write to another key or bucket adds
\* none; a Watch made with None gets an event for every key of the bucket
C15_PrefixStep ==
  WriteCall /\ watch.open =>
    IF last'.b = watch.b
       /\ (watch.arg.some => StartsWith(last'.k, watch.arg.val))
    THEN Len(watch'.queue) = Len(watch.queue) + 1
    ELSE watch'.queue = watch.queue
C15_PrefixState ==
  watch.open /\ watch.arg.some =>
    /\ \A i \in 1..Len(watch.queue) :
         StartsWith(watch.queue[i].key, watch.arg.val)
    /\ (event.tag # "none" => StartsWith(event.key.val, watch.arg.val))
C15_PrefixFilter == []C15_PrefixState /\ [][C15_PrefixStep]_vars

\* a key outside the prefix was written and left the Watch without event
C15_Witness ==
  /\ watch.open
  /\ watch.arg.some
  /\ last.op = "set"
  /\ last.b = watch.b
  /\ ~StartsWith(last.k, watch.arg.val)
  /\ watch.since = 0
  /\ watch.queue = <<>>
  /\ event.tag = "none"

\* -------------------------------------------------- properties: Transaction
\* the closure of transaction t ends with abort(e)
EndsWithAbort(t) == Len(t.prog) > 0 /\ t.prog[Len(t.prog)].op = "abort"

\* the key k of handle h is written by transaction t
Writes(t, h, k) == h \in 1..Len(t.parts) /\ t.writes[h][k].in

\* C1: a transaction2 call whose closure writes to both buckets and then
\* returns abort(e) changes no key of any bucket, from its start to its return
C1_AbortedWritesInvisibleStep ==
  \A p \in Procs :
    (txn'[p] # txn[p] /\ Len(txn'[p].parts) = 2 /\ EndsWithAbort(txn'[p]))
      => tree' = tree

C1_AbortedWritesInvisible == [][C1_AbortedWritesInvisibleStep]_vars

C1_Witness ==
  \E p \in Procs, k \in Keys :
    LET t == txn[p]
    IN  /\ t.phase = "done"
        /\ t.parts = <<"A", "B">>
        /\ t.engine.tag = "Abort"
        /\ t.result = Err(ErrorMessage(1))
        /\ Writes(t, 1, k) /\ t.writes[1][k].val # tree["A"][k]
        /\ Writes(t, 2, k) /\ t.writes[2][k].val # tree["B"][k]

\* C2: the trees change only when a transaction commits, and then every
\* write of the closure, to every participating bucket, is applied at once
C2_CommitAllOrNothingStep ==
  tree' # tree =>
    \E p \in Procs :
      LET t == txn[p]
      IN  /\ t.phase = "open"
          /\ txn'[p].phase = "done"
          /\ txn'[p].engine.tag = "Ok"
          /\ \A b \in Buckets, k \in Keys :
               IF \E h \in 1..Len(t.parts) : t.parts[h] = b /\ t.writes[h][k].in
               THEN \E h \in 1..Len(t.parts) :
                      /\ t.parts[h] = b
                      /\ t.writes[h][k].in
                      /\ tree'[b][k] = t.writes[h][k].val
               ELSE tree'[b][k] = tree[b][k]

C2_CommitAllOrNothing == [][C2_CommitAllOrNothingStep]_vars

C2_Witness ==
  \E p \in Procs, k \in Keys :
    LET t == txn[p]
    IN  /\ t.phase = "done"
        /\ t.engine.tag = "Ok"
        /\ t.parts = <<"A", "B", "C">>
        /\ \A h \in 1..3 : Writes(t, h, k) /\ tree[t.parts[h]][k] = t.writes[h][k].val
        /\ serial # FullTree(<<97>>)
        /\ tree["A"][k] = Some(<<195, 169>>)
        /\ tree["B"][k] = None

\* C3: abort(e) is returned as Err(e) with the same e, an engine storage
\* failure as the converted storage error, and the two differ
C3_AbortErrorUnchanged ==
  \A p \in Procs :
    LET t == txn[p]
    IN  t.phase = "done" =>
          /\ (t.engine.tag = "Ok" => t.result = Ok(t.engine.val))
          /\ (t.engine.tag = "Abort" =>
                /\ t.result = Err(t.engine.err)
                /\ t.result.err.kind # "Sled"
                /\ (t.ip <= Len(t.prog) /\ t.prog[t.ip].op = "abort"
                      => t.result = Err(t.prog[t.ip].e)))
          /\ (t.engine.tag = "Storage" =>
                /\ ~t.result.ok
                /\ t.result.err = [kind |-> "Sled", code |-> t.engine.code]
                /\ \A e \in AppErrors : t.result # Err(e))

C3_Witness ==
  \E p \in Procs, q \in Procs :
    /\ txn[p].phase = "done"
    /\ txn[p].engine.tag = "Abort"
    /\ txn[p].result = Err(ErrorMessage(2))
    /\ txn[q].phase = "done"
    /\ txn[q].engine.tag = "Storage"
    /\ txn[q].result.err.kind = "Sled"

\* C4: the committed trees are those a serial execution of the committed
\* closures, in commit order, produces: no update is lost, a discarded
\* attempt leaves no trace, each committed closure takes effect once
C4_SerialExecution == tree = serial

C4_Witness ==
  \E p \in Procs, q \in Procs, k \in Keys :
    /\ p # q
    /\ txn[p].phase = "done" /\ txn[p].engine.tag = "Ok"
    /\ txn[q].phase = "done" /\ txn[q].engine.tag = "Ok"
    /\ txn[p].parts = <<"B">> /\ txn[q].parts = <<"B">>
    /\ txn[p].prog = <<GetI(1, k), BumpI(1, k)>>
    /\ txn[q].prog = <<GetI(1, k), BumpI(1, k)>>
    /\ txn[p].attempts = 1
    /\ txn[q].attempts = 2
    /\ tree["B"][k] = Some(<<97, 97>>)

\* the last instruction before position j of prog that writes key k of handle h
LastWrite(prog, j, h, k) ==
  LET ws == {i \in 1..(j - 1) :
               prog[i].op \in {"set", "remove"} /\ prog[i].h = h /\ prog[i].k = k}
  IN  IF ws = {} THEN 0 ELSE CHOOSE i \in ws : \A i2 \in ws : i2 <= i

\* C5 (inside): a get that follows a set(k, v) of the same closure returns
\* Some(v), and None when it follows a remove(k)
C5_GetSeesOwnWrites ==
  \A p \in Procs :
    LET t == txn[p]
        j == t.ip - 1
    IN  (t.phase \in {"open", "done"} /\ j >= 1 /\ t.prog[j].op = "get") =>
          LET w == LastWrite(t.prog, j, t.prog[j].h, t.prog[j].k)
          IN  w # 0 =>
                t.local = IF t.prog[w].op = "set" THEN Some(t.prog[w].v) ELSE None

\* C5 (outside): no step of an open transaction other than its commit changes
\* what Bucket::get returns, and its commit makes its writes visible
C5_OutsideUnchangedStep ==
  \A p \in Procs :
    (txn[p].phase = "open" /\ txn'[p] # txn[p]) =>
      IF txn'[p].phase = "done" /\ txn'[p].engine.tag = "Ok"
      THEN \A h \in 1..Len(txn[p].parts), k \in Keys :
             txn[p].writes[h][k].in =>
               tree'[txn[p].parts[h]][k] = txn[p].writes[h][k].val
      ELSE \A b \in Buckets, k \in Keys :
             GetResult(tree', b, k, HandleType(b)) = GetResult(tree, b, k, HandleType(b))

\* C5: writes of a closure are visible to its own gets and not outside it
\* before the commit
C5_WritesVisibleInsideOnly ==
  []C5_GetSeesOwnWrites /\ [][C5_OutsideUnchangedStep]_vars

C5_Witness ==
  \E p \in Procs, k \in Keys :
    LET t == txn[p]
    IN  /\ t.phase = "open"
        /\ t.parts = <<"A">>
        /\ t.prog = <<SetI(1, k, <<233>>), GetI(1, k)>>
        /\ t.ip = 3
        /\ t.local = Some(<<233>>)
        /\ GetResult(tree, "A", k, "String") # Ok(Some(<<233>>))

\* C30: every id generate_id returns is greater than every id it returned
\* before, to the same thread or another, in the same run of a closure or a
\* later one; so no id is returned twice
C30_IdsMonotonicUnique ==
  \A i \in 1..Len(ids.got), j \in 1..Len(ids.got) :
    i < j => ids.got[i].id < ids.got[j].id

\* a closure was run again and generate_id gave its second run another id,
\* after the other thread was given one, and one id was passed over
C30_Witness ==
  \E i \in 1..Len(ids.got), j \in 1..Len(ids.got), k \in 1..Len(ids.got) :
    /\ i < j /\ j < k
    /\ ids.got[i].p = ids.got[k].p
    /\ ids.got[i].attempt = 1
    /\ ids.got[k].attempt = 2
    /\ ids.got[j].p # ids.got[i].p
    /\ ids.got[k].id > ids.got[i].id + (k - i)

\* ------------------------------------------------------- properties: errors
\* the kinds of Error a failed conversion of a key or value is reported as
EncodingKinds == {"Utf8", "FromUtf8"}

\* C31: a Bucket call returns Error::Sled exactly when its engine call
\* failed, and otherwise fails with an encoding-kind error only for stored
\* bytes that cannot be decoded; a transaction call returns Error::Sled
\* exactly when the engine reported a storage error, and the encoding-kind
\* error of a failed conversion as the abort it was
C31_EncodingNotStorage ==
  /\ (last.op # "none" /\ ~last.res.ok
        => IF last.engine = "failed" THEN last.res.err.kind = "Sled"
           ELSE /\ last.res.err.kind \in EncodingKinds
                /\ LastOld.some
                /\ ~Utf8Valid(LastOld.val, 1))
  /\ \A p \in Procs :
       txn[p].phase = "done" /\ ~txn[p].result.ok
         => IF txn[p].engine.tag = "Storage"
            THEN txn[p].result.err.kind = "Sled"
            ELSE /\ txn[p].engine.tag = "Abort"
                 /\ txn[p].result.err.kind \in EncodingKinds

\* a get failed in the engine, one transaction was aborted by a value that
\* is not UTF-8 and the other failed in the engine
C31_Witness ==
  /\ last.op = "get"
  /\ last.engine = "failed"
  /\ last.res.err.kind = "Sled"
  /\ txn["p1"].phase = "done"
  /\ txn["p1"].result = Err(ErrorFromUtf8)
  /\ txn["p2"].phase = "done"
  /\ txn["p2"].engine.tag = "Storage"
  /\ txn["p2"].result.err.kind = "Sled"

\* ------------------------------------------------------- properties: codecs
\* C32 as claimed: a value written as Json<T> and read back as Msgpack<T>
\* is an error of the decoder, never a decoded value
C32_JsonNeverReadsAsMsgpack ==
  codec.w = "Json" /\ codec.r = "Msgpack"
    => ~codec.res.ok /\ codec.res.err = ErrorMsgpackDecode

\* C32 as the code has it: a value read with the codec it was written with
\* is read back; a bool or String written as Json<T> fails to decode as
\* Msgpack<T>; a u8 written as Json<T> in one digit decodes as Msgpack<T> to
\* the code of that digit, and one of several digits to the code of the
\* first digit or an error
C32_JsonDigitReadsAsMsgpack ==
  /\ (codec.r # "none" /\ codec.r = codec.w
        => codec.res.ok /\ codec.res.val = codec.x)
  /\ (codec.w = "Json" /\ codec.r = "Msgpack"
        => IF codec.T = "u8"
           THEN IF codec.x <= 9
                THEN codec.res.ok /\ codec.res.val = 48 + codec.x
                ELSE codec.res.ok => codec.res.val = codec.raw[1]
           ELSE ~codec.res.ok /\ codec.res.err = ErrorMsgpackDecode)

\* Json(1u8) was written and Msgpack(49) read
C32_Witness ==
  /\ codec.w = "Json"
  /\ codec.r = "Msgpack"
  /\ codec.T = "u8"
  /\ codec.x = 1
  /\ codec.raw = <<49>>
  /\ codec.res.ok
  /\ codec.res.val = 49

\* C34: when the get, set or remove a closure calls next cannot decode the
\* value it reads, the step the closure takes ends the call: the engine is
\* handed an abort carrying the conversion Error, the call returns that
\* Error, no tree changes and the closure is not run again
C34_ConversionAborts ==
  [][\A p \in Procs :
       LET t == txn[p]
           i == t.prog[t.ip]
           r == DecodeOption(HandleType(t.parts[i.h]), TxnRead(t, tree, i.h, i.k))
       IN  /\ t.phase = "open"
           /\ t.ip <= Len(t.prog)
           /\ i.op \in {"get", "set", "bump", "remove"}
           /\ ~r.ok
           /\ txn'[p] # t
           => /\ r.err.kind \in EncodingKinds
              /\ txn'[p].phase = "done"
              /\ txn'[p].engine = EngineAbort(r.err)
              /\ txn'[p].result = Err(r.err)
              /\ txn'[p].attempts = t.attempts
              /\ tree' = tree]_vars
  /\ [](\A p \in Procs : txn[p].phase = "done" /\ txn[p].engine.tag = "Abort"
                           => txn[p].result = Err(txn[p].engine.err))

\* a closure wrote a key and was then aborted by a value that is not UTF-8:
\* the key holds what the other thread committed
C34_Witness ==
  \E p \in Procs, k \in Keys :
    /\ txn[p].phase = "done"
    /\ txn[p].engine = EngineAbort(ErrorFromUtf8)
    /\ txn[p].result = Err(ErrorFromUtf8)
    /\ txn[p].attempts = 1
    /\ txn[p].writes[1][k].in
    /\ txn[p].writes[1][k].val # tree[txn[p].parts[1]][k]

\* C35: a transaction call that is Open eventually returns, Ok or Err
C35_TransactionReturns ==
  \A p \in Procs : (txn[p].phase = "open") ~> (txn[p].phase = "done")

\* a call returned Ok after its closure was run a second time
C35_Witness ==
  \E p \in Procs :
    /\ txn[p].phase = "done"
    /\ txn[p].attempts = 2
    /\ txn[p].result.ok

\* ------------------------------------------------------- properties: frame
\* the entries of the tree other than entry k of bucket b are as before
OthersUntouched(b, k) ==
  \A c \in Buckets, j \in Keys : (c # b \/ j # k) => tree'[c][j] = tree[c][j]

\* C36: a Bucket::set, Bucket::remove or Bucket::compare_and_swap on key k
\* of a bucket changes at most the entry for k of that bucket: every other
\* key of the bucket, and every key of every other bucket, holds after the
\* call what it held before it
C36_WriteStep ==
  (calls' = calls + 1 /\ last'.op \in {"set", "remove", "cas"})
    => OthersUntouched(last'.b, last'.k)
C36_WritesOneEntry == [][C36_WriteStep]_vars

\* a remove of a key that was present, made while another key of the same
\* bucket and a key of the other bucket hold values, which they keep
C36_Witness ==
  /\ last.op = "remove"
  /\ last.pre[last.b][last.k].some
  /\ ~tree[last.b][last.k].some
  /\ \E j \in Keys \ {last.k} : tree[last.b][j].some
  /\ \E c \in Buckets \ {last.b}, j \in Keys : tree[c][j].some

\* ----------------------------------------------- properties: failed writes
EncodeKinds == {"Json", "MsgpackEncode"}

\* C37: when Bucket::set, Bucket::compare_and_swap or Batch::set fails
\* because the value cannot be converted to Raw (the call returns before
\* the engine is called: engine = "none"), nothing is written: the
\* trees are as they were before the call, and the batch records no write,
\* so that applying it later writes nothing for that call either
C37_FailedStep ==
  (/\ \/ calls' = calls + 1 /\ last'.op \in {"set", "cas"}
      \/ last' # last /\ last'.op = "batch_set"
   /\ last'.engine = "none" /\ ~last'.res.ok)
    => (tree' = tree /\ batch' = batch)
C37_FailedWriteWritesNothing == [][C37_FailedStep]_vars

\* a set of a value that cannot be serialized has just failed over a bucket
\* that holds entries, which are as they were
C37_Witness ==
  /\ last.op = "set"
  /\ last.engine = "none"
  /\ ~last.res.ok
  /\ last.res.err.kind \in EncodeKinds
  /\ tree[last.b][last.k].some
  /\ tree = last.pre

\* ------------------------------------------ properties: failed get_or_create
\* the Manager call made in this step, and the one before it a get_or_create
\* of the same store that failed
ManagerCall(op) == mgr'.n = mgr.n + 1 /\ mgr'.op = op
AfterFailedCreate ==
  /\ mgr.op = "get_or_create"
  /\ ~mgr.res.ok
  /\ Canon(mgr'.path) = Canon(mgr.path)
\* the environment is opened: the call succeeds or fails in the engine
AttemptsConstruction == mgr'.res.ok \/ mgr'.res = Failed(ErrorLMDB)

\* C38 (as claimed): when Manager::get_or_create fails the registry is as
\* it was, a Manager::get of that path that follows returns Ok(None), and a
\* get_or_create of that path that follows attempts the construction again
C38_FailedStepRetryable ==
  /\ (ManagerCall("get_or_create") /\ ~mgr'.res.ok) => mgr'.stores = mgr.stores
  /\ (ManagerCall("get") /\ AfterFailedCreate) => mgr'.res = Ok(0)
  /\ (ManagerCall("get_or_create") /\ AfterFailedCreate) => AttemptsConstruction
C38_FailedCreateRetryable == [][C38_FailedStepRetryable]_vars

\* C38 (as the code behaves): when Manager::get_or_create fails the
\* registry is as it was and the directory of the path does not exist (it
\* never did, or the failed open removed it); while it does not exist, a
\* Manager::get of that path returns Err(IO), not Ok(None), and a
\* get_or_create of that path fails with Err(IO) before it opens anything
C38_FailedStep ==
  /\ (ManagerCall("get_or_create") /\ ~mgr'.res.ok)
       => /\ mgr'.stores = mgr.stores
          /\ Canon(mgr'.path) \notin mgr'.dirs
  /\ (/\ ManagerCall("get") \/ ManagerCall("get_or_create")
      /\ AfterFailedCreate
      /\ Canon(mgr.path) \notin mgr.dirs)
       => /\ mgr'.res = Failed(ErrorIO)
          /\ mgr'.stores = mgr.stores
          /\ mgr'.arcs = mgr.arcs
C38_FailedCreate == [][C38_FailedStep]_vars

\* a get_or_create has just failed in the engine, in a directory the
\* application had created: the directory is gone and nothing is registered
C38_Witness ==
  /\ mgr.op = "get_or_create"
  /\ mgr.res = Failed(ErrorLMDB)
  /\ Canon(mgr.path) \notin mgr.dirs
  /\ \A key \in KeyPaths : mgr.stores[key] = 0

\* ------------------------------------------------ properties: Config flags
\* C39 (as claimed): Config::flag(f) adds f to the flags already set: after
\* the call flags() holds the flags it held before it and those of f
C39_FlagsAccumulate ==
  store.flagged # {} => store.cfg.flags = store.before \cup store.flagged

\* C39 (as the code behaves): after Config::flag(f), flags() is exactly f;
\* the flags set by earlier calls are lost unless f repeats them
C39_FlagReplaces ==
  store.flagged # {} => store.cfg.flags = store.flagged

\* flag(f1) was followed by flag(f2), f2 without a flag of f1, which is
\* lost
C39_Witness ==
  /\ store.flagged # {}
  /\ store.before \ store.flagged # {}
  /\ store.cfg.flags = store.flagged

\* ------------------------------------------------- properties: failed open
\* Config::env failed in this step, called by Store::new or get_or_create
OpenFails ==
  /\ mgr'.n = mgr.n + 1
  /\ mgr'.op \in {"store_new", "get_or_create"}
  /\ mgr'.res = Failed(ErrorLMDB)

\* C40 (as claimed): a failed open of the environment destroys nothing:
\* every file that was under the path before the call is there after it
C40_FailedOpenStepKeeps == OpenFails => mgr.files \subseteq mgr'.files
C40_FailedOpenKeepsFiles == [][C40_FailedOpenStepKeeps]_vars

\* C40 (as the code behaves): a failed open of the environment deletes the
\* directory at the path and every file under it, those that were there
\* before the call included; the files of other directories stay
C40_FailedOpenStepDeletes ==
  OpenFails
    => /\ Canon(mgr'.path) \notin mgr'.dirs
       /\ mgr'.files = mgr.files \ FilesUnder(mgr.files, Canon(mgr'.path))
       /\ mgr'.lost = FilesUnder(mgr.files, Canon(mgr'.path))
C40_FailedOpenDeletes == [][C40_FailedOpenStepDeletes]_vars

\* an open has just failed at a path that held the files of an environment
\* and a file of the application, all of which it deleted
C40_Witness ==
  /\ mgr.res = Failed(ErrorLMDB)
  /\ \E c \in CanonPaths :
       mgr.lost = {<<c, name>> : name \in EnvFileNames \cup AppFileNames}

====
